---- MODULE Spec2Model ----
(***************************************************************************)
(* Model of the HHBBC instruction-level abstract interpreter               *)
(* (hphp/hhbbc/interp.cpp): the block driver (run, interpOps, interpStep), *)
(* the strength-reduction engine (impl_vec) and the opcode handlers the    *)
(* verified properties depend on.                                          *)
(*                                                                         *)
(* A Type is the set of concrete values it may denote, so subtypeOf is     *)
(* set inclusion, couldBe is overlap and union_of is set union.  Integers  *)
(* are IntBits wide and wrap.                                              *)
(***************************************************************************)
EXTENDS Integers, Sequences, FiniteSets, TLC

\* ------------------------------------------------------------------ bounds
MaxBlockLen == 3
NumLocals == 4
IntBits == 1
MaxImplLen == 3

\* ------------------------------------------------------- the type lattice
IntMod == 2 ^ IntBits

Val(k, v) == [k |-> k, v |-> v]

TBottom == {}
TUninit == {Val("Uninit", 0)}
TInitNull == {Val("Null", 0)}
TNull == TUninit \cup TInitNull
TFalse == {Val("Bool", 0)}
TTrue == {Val("Bool", 1)}
TBool == TFalse \cup TTrue
TInt == {Val("Int", n) : n \in 0..(IntMod - 1)}
TStr == {Val("Str", 0), Val("Str", 1)}
TObj == {Val("Obj", 0), Val("Obj", 1)}
TRef == {Val("Ref", 0)}
\* floating values: 0 stands for NaN, 1 for an ordinary number
TDbl == {Val("Dbl", 0), Val("Dbl", 1)}
\* containers, one value per kind (and the two-element vec of the index)
TPArr == {Val("PArr", 0)}
TVArr == {Val("VArr", 0)}
TDArr == {Val("DArr", 0)}
TArr == TPArr \cup TVArr \cup TDArr
TVec == {Val("Vec", 0), Val("Vec", 1), Val("Vec", 2), Val("Vec", 3)}
\* the empty vec and the vec of one element
TVecE == {Val("Vec", 1)}
TVec1 == {Val("Vec", 3)}
TInitCell ==
  TInitNull \cup TBool \cup TInt \cup TStr \cup TObj \cup TDbl \cup TArr \cup TVec
TCell == TInitCell \cup TUninit
TInitGen == TInitCell \cup TRef
TGen == TCell \cup TRef

ival(n) == {Val("Int", n % IntMod)}
sval(n) == {Val("Str", n)}

subtypeOf(a, b) == a \subseteq b
strictSubtypeOf(a, b) == subtypeOf(a, b) /\ a # b
couldBe(a, b) == (a \cap b) # {}
union_of(a, b) == a \cup b
remove_uninit(t) == t \ TUninit

\* tv: the literal value of a type, when it denotes exactly one value of a
\* kind that has literals (objects and references have none).
LiteralKinds == {"Uninit", "Null", "Bool", "Int", "Str", "Dbl"}
HasTv(t) == Cardinality(t) = 1 /\ \A x \in t : x.k \in LiteralKinds
tv(t) == CHOOSE x \in t : TRUE
is_scalar(t) == HasTv(t)
\* from_cell(tv(t)): the type of a literal cell is the singleton holding it
from_cell(x) == {x}

\* emptiness: the truthiness of a type; integers and strings are decided
\* only when the type is one literal.
emptiness(t) ==
  IF \A x \in t : x.k \in {"Uninit", "Null"} \/ x = Val("Bool", 0) THEN "Empty"
  ELSE IF \A x \in t : x.k \in {"Obj", "Dbl"} \/ x = Val("Bool", 1)
       THEN "NonEmpty"
  ELSE IF HasTv(t) /\ tv(t).k \in {"Int", "Str"}
       THEN (IF tv(t).v = 0 THEN "Empty" ELSE "NonEmpty")
  ELSE "Maybe"

could_run_destructor(t) ==
  couldBe(t, TObj) \/ couldBe(t, TRef) \/ couldBe(t, TArr \cup TVec)

intersection_of(a, b) == a \cap b
\* the uncounted values: everything but objects and references
TUnc == TNull \cup TBool \cup TInt \cup TStr \cup TDbl \cup TArr \cup TVec
\* is_opt / unopt: a type that is InitNull or values of one other kind
is_opt(t) ==
  /\ subtypeOf(TInitNull, t)
  /\ t # TInitNull
  /\ \A x \in t, y \in t : x.k = "Null" \/ y.k = "Null" \/ x.k = y.k
unopt(t) == t \ TInitNull
\* loosening forgets the distinction the lattice cannot compare on: the
\* flavour of a PHP array, the literal value of a string
loosen_dvarrayness(t) == IF couldBe(t, TArr) THEN t \cup TArr ELSE t
loosen_staticness(t) == IF couldBe(t, TStr) THEN t \cup TStr ELSE t
\* cellSame on two literals: identity, NaN differing from itself
std_isnan(x) == x.k = "Dbl" /\ x.v = 0
cellSame(x, y) == x = y /\ ~std_isnan(x)
\* the lattice-level comparators: disjoint types are never the same
typeSame(a, b) == IF ~couldBe(a, b) THEN TFalse ELSE TBool
typeNSame(a, b) == IF ~couldBe(a, b) THEN TTrue ELSE TBool
\* type_of_istype: the type an IsTypeOp tests for
type_of_istype(typeOp) ==
  CASE typeOp = "Null" -> TNull
    [] typeOp = "Bool" -> TBool
    [] typeOp = "Int" -> TInt
    [] typeOp = "Dbl" -> TDbl
    [] typeOp = "Str" -> TStr
\* classes of the index: C and D are unrelated classes whose instances
\* are the two object values; any other name does not resolve
resolve_class(name) == name \in {"C", "D"}
subObj(name) == IF name = "C" THEN {Val("Obj", 0)} ELSE {Val("Obj", 1)}
interface_supports_non_objects(name) == name = "Stringish"

\* typeAdd: the lattice-level sum; literal operands give the wrapped
\* concrete sum, integer operands an integer, anything else any value.
typeAdd(t1, t2) ==
  IF HasTv(t1) /\ HasTv(t2) /\ tv(t1).k = "Int" /\ tv(t2).k = "Int"
  THEN ival(tv(t1).v + tv(t2).v)
  ELSE IF subtypeOf(t1, TInt) /\ subtypeOf(t2, TInt) /\ t1 # {} /\ t2 # {}
       THEN TInt
  ELSE TInitCell

\* --------------------------------------------------- identifiers and ids
NoBlockId == 0
NoLocalId == 0
StackDupId == -1
kNoUnpack == -1
Locals == 1..NumLocals

\* --------------------------------------------------------- instructions
\* op: the opcode; a1, a2: immediates (a literal, a local, a block id, an
\* argument or return count); s1, s2: class and function names.
s_empty == ""
InsS(op, a1, a2, s1, s2) ==
  [op |-> op, a1 |-> a1, a2 |-> a2, s1 |-> s1, s2 |-> s2,
   a3 |-> 0, a4 |-> 0]
Ins(op, a1, a2) == InsS(op, a1, a2, s_empty, s_empty)
Ins0(op) == Ins(op, 0, 0)
\* an iterator instruction: iterator a1, target a2, value local a3 and key
\* local a4
InsIter(op, a1, a2, a3, a4) ==
  [Ins(op, a1, a2) EXCEPT !.a3 = a3, !.a4 = a4]

\* instrFlags(op) & TF: the control-terminating forms
TF(op) == op \in {"RetC", "Throw", "Fatal", "Jmp", "JmpNS", "Unwind",
                  "NativeImpl", "Switch"}

\* Declared stack arity of an instruction (Bytecode::numPop / numPush).
\* The multi-value calls pop their arguments and the a2 - 1 placeholder
\* slots below them, and push a2 values.
numPop(ins) ==
  CASE ins.op \in {"Nop", "Null", "NullUninit", "True", "False", "Int",
                   "String", "CGetL", "CUGetL", "UnsetL", "IsUninit",
                   "FPushFuncD", "FPassC", "StaticLocCheck", "IsTypeL",
                   "Unwind", "MemoGet", "FPushClsMethodD"} -> 0
    [] ins.op \in {"PopC", "Dup", "Print", "Not", "CastInt", "CastBool",
                   "JmpZ", "JmpNZ", "RetC", "Throw", "Fatal", "Exit",
                   "PopL", "SetL", "CGetN", "UnboxRNop", "RGetCNop",
                   "IsTypeC", "InstanceOfD", "PopR", "UnboxR",
                   "FPushFunc", "Await", "IterInit", "IterInitK",
                   "DefCns"} -> 1
    [] ins.op \in {"Add", "Same", "NSame", "Eq", "Neq", "Concat"} -> 2
    [] ins.op \in {"FCall", "FCallD", "FCallUnpack", "FCallAwait"} -> ins.a1
    [] ins.op = "FCallArray" -> 1
    [] ins.op \in {"FCallM", "FCallDM", "FCallUnpackM"} ->
         ins.a1 + ins.a2 - 1
    [] OTHER -> 0

numPush(ins) ==
  CASE ins.op \in {"Nop", "PopC", "UnsetL", "JmpZ", "JmpNZ", "RetC", "Throw",
                   "Fatal", "FPushFuncD", "FPassC", "PopL", "Unwind",
                   "PopR", "FPushFunc", "FPushClsMethodD", "Jmp", "JmpNS",
                   "NativeImpl", "IterInit", "IterInitK", "IterNext",
                   "IterNextK", "IterFree"} -> 0
    [] ins.op = "Dup" -> 2
    [] ins.op \in {"FCallM", "FCallDM", "FCallUnpackM"} -> ins.a2
    [] OTHER -> 1

\* ------------------------------------------------------ abstract state
StkElem(t, e) == [type |-> t, equiv |-> e]

\* A pending-call record
ActRec(kind, cls, func, fallback, foldable) ==
  [kind |-> kind, cls |-> cls, func |-> func, fallbackFunc |-> fallback,
   foldable |-> foldable]

\* collect.cnsMap: the constants this function was seen to read or define,
\* by name; a name not in the map has the cell kAbsent
CnsNames == {"A", "B", "K"}
kAbsent == Val("Absent", 0)
kReadOnlyConstant == Val("ReadOnlyConstant", 0)
NoCnsMap == [n \in CnsNames |-> kAbsent]
\* interp.collect before the first block of a function
NoCollected ==
  [effectFree |-> TRUE, unfoldable |-> {}, cnsMap |-> NoCnsMap,
   readsUntrackedConstants |-> FALSE]

\* StepFlags{} as default-constructed
DefaultFlags ==
  [wasPEI |-> TRUE, canConstProp |-> FALSE, effectFree |-> FALSE,
   strengthReduced |-> <<>>, hasReduced |-> FALSE,
   jmpDest |-> NoBlockId, returned |-> <<>>]

\* ------------------------------------------------------------ variables
VARIABLES
  hhbcs,          \* interp.blk->hhbcs: the block's instructions
  fallthrough,    \* interp.blk->fallthrough (NoBlockId if none)
  factoredExits,  \* interp.blk->factoredExits
  options,        \* options.* and interp.collect.* switches, fixed per run
  state,          \* interp.state
  collect,        \* interp.collect: effectFree, unfoldableFuncs
  iter,           \* run's iterator: index of the next instruction
  outcome,        \* "Scanning" or how run ended
  returned,       \* RunFlags.returned: <<>> or <<type>>
  propagated,     \* every call of propagate so far, in order
  entry,          \* the state the block was entered with
  last,           \* what the latest call of interpOps did
  implRun         \* impl_vec's locals, when one call of it is stepped through

vars == <<hhbcs, fallthrough, factoredExits, options, state, collect, iter,
          outcome, returned, propagated, entry, last, implRun>>

\* ------------------------------------------- the interpreter's primitives
\* env (ISS) bundles the state, the step's flags, the propagate calls made
\* and the collected per-function facts.
push(env, t, e) ==
  [env EXCEPT !.state.stack = Append(@, StkElem(t, e))]
depth(env) == Len(env.state.stack)
discard(env, n) ==
  [env EXCEPT !.state.stack = SubSeq(@, 1, Len(@) - n)]
topT(env, i) == env.state.stack[depth(env) - i].type
topStkEquiv(env, i) == env.state.stack[depth(env) - i].equiv

nothrow(env) == [env EXCEPT !.flags.wasPEI = FALSE]
effect_free(env) == [nothrow(env) EXCEPT !.flags.effectFree = TRUE]
constprop(env) == [env EXCEPT !.flags.canConstProp = TRUE]
unreachable(env) == [env EXCEPT !.state.unreachable = TRUE]
jmp_setdest(env, target) == [env EXCEPT !.flags.jmpDest = target]
jmp_nevertaken(env) == jmp_setdest(env, fallthrough)
propagate(env, target, st) ==
  [env EXCEPT !.log = Append(@, [origin |-> "edge", target |-> target,
                                 state |-> st])]
doRet(env, t, hasEffects) ==
  LET e1 == [env EXCEPT !.flags.returned = <<t>>]
  IN IF hasEffects THEN e1 ELSE effect_free(e1)

locRaw(env, l) == env.state.locals[l]
locCouldBeUninit(env, l) == couldBe(locRaw(env, l), TUninit)
\* locAsCell: the local read as a cell (a reference reads as any value)
locAsCell(env, l) ==
  LET t == locRaw(env, l)
  IN IF couldBe(t, TRef) THEN TInitCell
     ELSE IF couldBe(t, TUninit) THEN union_of(remove_uninit(t), TInitNull)
     ELSE t
locCouldBeRef(env, l) == couldBe(locRaw(env, l), TRef)

fpiTop(env) == env.state.fpiStack[Len(env.state.fpiStack)]
fpiPop(env) ==
  [env EXCEPT !.state.fpiStack = SubSeq(@, 1, Len(@) - 1)]
fpiNotFoldable(env) ==
  [env EXCEPT !.unfoldable = @ \cup {fpiTop(env).func},
              !.state.fpiStack[Len(env.state.fpiStack)].foldable = FALSE]

\* gen_constant: the instruction pushing a literal
gen_constant(x) ==
  CASE x.k = "Uninit" -> Ins0("NullUninit")
    [] x.k = "Null" -> Ins0("Null")
    [] x.k = "Bool" -> IF x.v = 1 THEN Ins0("True") ELSE Ins0("False")
    [] x.k = "Int" -> Ins("Int", x.v, 0)
    [] x.k = "Dbl" -> Ins("Double", x.v, 0)
    [] OTHER -> Ins("String", x.v, 0)

\* the top n stack slots all hold literals
AllScalarTop(stack, n) ==
  /\ n <= Len(stack)
  /\ \A i \in 0..(n - 1) : is_scalar(stack[Len(stack) - i].type)

\* ------------------------------------------------- local equivalence
\* equivLocals[l] is the next local of l's equivalence ring, or NoLocalId.
findLocEquiv(env, l) == env.state.equivLocals[l]
RECURSIVE RingFrom(_, _, _)
RingFrom(eq, l, seen) ==
  IF l = NoLocalId \/ l \in seen THEN seen
  ELSE RingFrom(eq, eq[l], seen \cup {l})
EquivClass(env, l) == RingFrom(env.state.equivLocals, l, {})
locsAreEquiv(env, l1, l2) == l1 # l2 /\ l2 \in EquivClass(env, l1)

\* killLocEquiv: take l out of its ring
killLocEquiv(env, l) ==
  LET eq == env.state.equivLocals
      eq2 == [x \in Locals |->
                IF x = l THEN NoLocalId
                ELSE IF eq[x] = l
                THEN (IF eq[l] = x THEN NoLocalId ELSE eq[l])
                ELSE eq[x]]
  IN IF eq[l] = NoLocalId THEN env
     ELSE [env EXCEPT !.state.equivLocals = eq2]

\* addLocEquiv: put the ringless local from into the ring of to
addLocEquiv(env, from, to) ==
  LET eq == env.state.equivLocals
  IN [env EXCEPT !.state.equivLocals =
        [x \in Locals |->
           IF x = from THEN (IF eq[to] = NoLocalId THEN to ELSE eq[to])
           ELSE IF x = to THEN from
           ELSE eq[x]]]

\* killStkEquiv: no stack slot is known as l any more
killStkEquiv(env, l) ==
  [env EXCEPT !.state.stack =
     [i \in 1..Len(@) |->
        IF @[i].equiv = l THEN StkElem(@[i].type, NoLocalId) ELSE @[i]]]

\* setLocRaw: a write to l ends what was known to equal it
setLocRaw(env, l, t) ==
  [killStkEquiv(killLocEquiv(env, l), l) EXCEPT !.state.locals[l] = t]
setLoc(env, l, t) == setLocRaw(env, l, t)

\* the slots refineLocation walks for StackDupId: from index i down past
\* the duplicates to the slot they duplicate
RECURSIVE DupChain(_, _)
DupChain(stk, i) ==
  IF i > 1 /\ stk[i].equiv = StackDupId
  THEN {i} \cup DupChain(stk, i - 1)
  ELSE {i}

\* refineLocation(env, l, fun): narrow the value known as l (a local and
\* the locals equivalent to it, and the stack slots tagged with them; or
\* the duplicated top of the stack); a refinement to TBottom makes the
\* state unreachable.
refineLocation(env, l, fun(_)) ==
  LET stk == env.state.stack
      n == Len(stk)
      chain == IF l = StackDupId /\ n > 0 THEN DupChain(stk, n) ELSE {}
      base == IF chain = {} THEN l
              ELSE stk[CHOOSE i \in chain : \A j \in chain : i <= j].equiv
      cls == IF base \in Locals THEN EquivClass(env, base) ELSE {}
      hit(i) == i \in chain \/ stk[i].equiv \in cls
      stk2 == [i \in 1..n |->
                 IF hit(i) THEN StkElem(fun(stk[i].type), stk[i].equiv)
                 ELSE stk[i]]
      loc2 == [x \in Locals |->
                 IF x \in cls THEN fun(env.state.locals[x])
                 ELSE env.state.locals[x]]
      bad == (\E i \in 1..n : hit(i) /\ stk2[i].type = TBottom)
             \/ (\E x \in cls : loc2[x] = TBottom)
      e1 == [env EXCEPT !.state.stack = stk2, !.state.locals = loc2]
  IN IF bad THEN unreachable(e1) ELSE e1

\* refineLocation(env, l, pre, target, post)
refineLocationJmp(env, l, pre(_), target, post(_)) ==
  LET saved == env.state
      e1 == refineLocation(env, l, pre)
      e2 == propagate(e1, target, e1.state)
      e3 == [e2 EXCEPT !.state = saved]
  IN refineLocation(e3, l, post)

IsFalsy(x) == x.k \in {"Uninit", "Null"} \/ (x.k \in {"Bool", "Int", "Str"} /\ x.v = 0)
MaybeFalsy(x) == x.k \in {"PArr", "VArr", "DArr", "Vec"}
assert_emptiness(t) == {x \in t : IsFalsy(x) \/ MaybeFalsy(x)}
assert_nonemptiness(t) == {x \in t : ~IsFalsy(x)}

\* ------------------------------------------------ the whole-program index
FoldableFuncs == {"f_fold"}
FuncOfStr(v) == IF v = 1 THEN "f_int" ELSE "f_never"
TVec2 == {Val("Vec", 2)}
is_specialized_vec(t) == t = TVec2
vec_elem(t, i) == IF i = 0 THEN TInt ELSE TStr
lookup_return_type(func) ==
  CASE func = "f_int" -> TInt
    [] func = "f_never" -> TBottom
    [] func = "f_pair" -> TVec2
    [] OTHER -> TInitCell
\* folding evaluates the callee on literal arguments; it fails when an
\* argument is not a literal or the evaluation throws (argument 0 here)
lookup_foldable_return_type(func, args) ==
  IF \A i \in 1..Len(args) : HasTv(args[i]) /\ args[i] # ival(0)
  THEN ival(1) ELSE TBottom
\* fpiPush: record a pending call; a call is foldable when folding is
\* enabled, the callee is a foldable function and no earlier attempt to
\* fold it failed.
fpiFoldable(env, ar) ==
  /\ options.ConstantFoldBuiltins
  /\ ar.func \in FoldableFuncs
  /\ ar.fallbackFunc = s_empty
  /\ ar.func \notin env.unfoldable
fpiPush(env, ar) ==
  [env EXCEPT !.state.fpiStack =
     Append(@, [ar EXCEPT !.foldable = fpiFoldable(env, ar)])]

\* a failed assertx / always_assert: the analysis aborts
assert_failed(env) == [env EXCEPT !.aborted = TRUE]

\* ----------------------------------------------------- opcode handlers
RECURSIVE impl_vec(_, _, _), dispatch(_, _)

reduce(env, bcs) == impl_vec(env, TRUE, bcs)
impl(env, bcs) == impl_vec(env, FALSE, bcs)

in_Nop(env, op) == effect_free(env)

in_PopC(env, op) ==
  LET t == topT(env, 0)
      e1 == discard(nothrow(env), 1)
  IN IF ~could_run_destructor(t) THEN effect_free(e1) ELSE e1

in_Dup(env, op) ==
  LET equiv == topStkEquiv(env, 0)
      val == topT(env, 0)
      e1 == discard(effect_free(env), 1)
  IN push(push(e1, val, equiv), val, StackDupId)

in_Null(env, op) == push(effect_free(env), TInitNull, NoLocalId)
in_NullUninit(env, op) == push(effect_free(env), TUninit, NoLocalId)
in_True(env, op) == push(effect_free(env), TTrue, NoLocalId)
in_False(env, op) == push(effect_free(env), TFalse, NoLocalId)
in_Int(env, op) == push(effect_free(env), ival(op.a1), NoLocalId)
in_Double(env, op) == push(effect_free(env), {Val("Dbl", op.a1)}, NoLocalId)
in_String(env, op) == push(effect_free(env), sval(op.a1), NoLocalId)
in_RGetCNop(env, op) == effect_free(env)

in_UnboxRNop(env, op) ==
  LET t == topT(env, 0)
      e1 == discard(constprop(effect_free(env)), 1)
  IN push(e1, IF subtypeOf(t, TInitCell) THEN t ELSE TInitCell, NoLocalId)

in_Print(env, op) == push(discard(env, 1), ival(1), NoLocalId)

\* an arithImpl that does not mark the result const-prop-eligible
arithImpl_noConstprop(env, op) ==
  push(discard(env, 2), typeAdd(topT(env, 1), topT(env, 0)), NoLocalId)

arithImpl(env, op) ==
  LET t1 == topT(env, 0)
      t2 == topT(env, 1)
  IN push(discard(constprop(env), 2), typeAdd(t2, t1), NoLocalId)

castBoolImpl(env, t, negate) ==
  LET e1 == constprop(nothrow(env))
      e == emptiness(t)
  IN IF e \in {"Empty", "NonEmpty"}
     THEN push(e1, IF (e = "Empty") = negate THEN TTrue ELSE TFalse,
               NoLocalId)
     ELSE push(e1, TBool, NoLocalId)

in_Not(env, op) == castBoolImpl(discard(env, 1), topT(env, 0), TRUE)

\* ------------------------------------------------ identity comparison
couldBeHackArr(t) == couldBe(t, TVec)

\* resolveSame's mightWarn
mightWarn(t1, t2) ==
  IF /\ options.EvalHackArrCompatNotices
     /\ \/ couldBe(t1, TArr) /\ couldBeHackArr(t2)
        \/ couldBeHackArr(t1) /\ couldBe(t2, TArr)
  THEN TRUE
  ELSE IF options.EvalHackArrCompatDVCmpNotices
  THEN /\ couldBe(t1, TArr) /\ couldBe(t2, TArr)
       /\ ~(subtypeOf(t1, TPArr) /\ subtypeOf(t2, TPArr))
       /\ ~(subtypeOf(t1, TVArr) /\ subtypeOf(t2, TVArr))
       /\ ~(subtypeOf(t1, TDArr) /\ subtypeOf(t2, TDArr))
  ELSE FALSE

\* the operands are known to hold one value: the top duplicates the slot
\* below it, or both are the same local or equivalent locals
knownSameValue(env, l1, l2) ==
  \/ l1 = StackDupId
  \/ /\ l1 \in Locals /\ l2 \in Locals
     /\ (l1 = l2 \/ locsAreEquiv(env, l1, l2))

\* a guard that forgets NaN
sameDespiteNaN_always(t1, t2) == TRUE

\* the guard under which one value is the same as itself: it is no NaN
sameDespiteNaN(t1, t2) ==
  \/ ~couldBe(t1, TDbl)
  \/ ~couldBe(t2, TDbl)
  \/ HasTv(t1) /\ ~std_isnan(tv(t1))
  \/ HasTv(t2) /\ ~std_isnan(tv(t2))

\* resolveSame's result
resolveSameResult(env, NSame, l1, t1, l2, t2) ==
  IF knownSameValue(env, l1, l2) /\ sameDespiteNaN(t1, t2)
  THEN (IF NSame THEN TFalse ELSE TTrue)
  ELSE IF HasTv(t1) /\ HasTv(t2)
  THEN (IF cellSame(tv(t2), tv(t1)) # NSame THEN TTrue ELSE TFalse)
  ELSE (IF NSame THEN typeNSame(t1, t2) ELSE typeSame(t1, t2))

resolveSame(env, NSame) ==
  [first |-> resolveSameResult(env, NSame, topStkEquiv(env, 0),
                               topT(env, 0), topStkEquiv(env, 1),
                               topT(env, 1)),
   second |-> mightWarn(topT(env, 0), topT(env, 1))]

\* a sameImpl that marks the comparison whatever it may warn about
sameImpl_ignoresWarn(env, Negate) ==
  push(constprop(nothrow(discard(env, 2))), resolveSame(env, Negate).first,
       NoLocalId)

sameImpl(env, Negate) ==
  LET pair == resolveSame(env, Negate)
      e1 == discard(env, 2)
      e2 == IF ~pair.second THEN constprop(nothrow(e1)) ELSE e1
  IN push(e2, pair.first, NoLocalId)

in_Same(env, op) == sameImpl(env, FALSE)
in_NSame(env, op) == sameImpl(env, TRUE)

\* cellEqual on two literals: loose equality
cellEqual(x, y) ==
  IF std_isnan(x) \/ std_isnan(y) THEN FALSE
  ELSE IF x.k = y.k THEN x.v = y.v
  ELSE IF x.k \in {"Null", "Bool"} \/ y.k \in {"Null", "Bool"}
  THEN IsFalsy(x) = IsFalsy(y)
  ELSE x.v = y.v

\* binOpBoolImpl for Eq (negate = FALSE) and Neq (negate = TRUE)
binOpBoolImpl(env, negate) ==
  LET t1 == topT(env, 0)
      t2 == topT(env, 1)
      e1 == discard(env, 2)
  IN IF HasTv(t1) /\ HasTv(t2)
     THEN push(constprop(e1),
               IF cellEqual(tv(t2), tv(t1)) # negate THEN TTrue ELSE TFalse,
               NoLocalId)
     ELSE push(e1, TBool, NoLocalId)

in_Eq(env, op) ==
  LET rs == resolveSame(env, FALSE)
      e1 == IF ~rs.second THEN constprop(env) ELSE env
  IN IF rs.first = TTrue THEN push(discard(e1, 2), TTrue, NoLocalId)
     ELSE binOpBoolImpl(env, FALSE)

in_Neq(env, op) ==
  LET rs == resolveSame(env, FALSE)
      e1 == IF ~rs.second THEN constprop(env) ELSE env
  IN IF rs.first = TTrue THEN push(discard(e1, 2), TFalse, NoLocalId)
     ELSE binOpBoolImpl(env, TRUE)

\* cellToInt on a literal
cellToInt(x) ==
  IF x.k \in {"Bool", "Int", "Str", "Dbl"} THEN x.v % IntMod ELSE 0

\* a cast that is carried out whatever the operand's type
in_CastInt_alwaysCasts(env, op) ==
  push(nothrow(discard(constprop(env), 1)), TInt, NoLocalId)

in_CastInt(env, op) ==
  LET e0 == constprop(env)
      t == topT(env, 0)
      e1 == discard(e0, 1)
      e2 == IF ~couldBe(t, TObj) THEN nothrow(e1) ELSE e1
  IN IF subtypeOf(t, TInt) THEN reduce(e0, <<Ins0("Nop")>>)
     ELSE IF HasTv(t) THEN push(e2, ival(cellToInt(tv(t))), NoLocalId)
     ELSE push(e2, TInt, NoLocalId)

in_CGetL(env, op) ==
  LET e1 == IF ~locCouldBeUninit(env, op.a1)
            THEN constprop(nothrow(env)) ELSE env
  IN push(e1, locAsCell(env, op.a1), op.a1)

in_CUGetL(env, op) ==
  LET ty == locRaw(env, op.a1)
      e1 == nothrow(env)
      e2 == IF ~couldBe(ty, TUninit) THEN constprop(e1) ELSE e1
  IN IF subtypeOf(ty, TUninit) THEN reduce(env, <<Ins0("NullUninit")>>)
     ELSE push(e2, IF subtypeOf(ty, TCell) THEN ty ELSE TCell, op.a1)

in_UnsetL(env, op) == setLocRaw(nothrow(env), op.a1, TUninit)

\* a move that trusts the equivalence without comparing the types
moveToLocImpl_anyType(env, op) ==
  LET e0 == nothrow(env)
      stkLoc == topStkEquiv(env, 0)
      top == IF stkLoc \in Locals THEN stkLoc ELSE NoLocalId
      same == /\ ~locCouldBeRef(env, op.a1)
              /\ top # NoLocalId
              /\ (top = op.a1 \/ locsAreEquiv(env, top, op.a1))
      equivLoc == IF locCouldBeRef(env, op.a1) THEN top
                  ELSE IF top # NoLocalId THEN top ELSE op.a1
      val == topT(env, 0)
      e1 == setLoc(discard(e0, 1), op.a1, val)
      e2 == IF equivLoc # op.a1 /\ equivLoc # NoLocalId
            THEN addLocEquiv(e1, op.a1, equivLoc) ELSE e1
  IN IF same THEN [done |-> FALSE, env |-> e0, val |-> val, equiv |-> top]
     ELSE [done |-> TRUE, env |-> e2, val |-> val, equiv |-> equivLoc]

\* moveToLocImpl: done is FALSE when the local already holds the value
moveToLocImpl(env, op) ==
  LET e0 == nothrow(env)
      stkLoc == topStkEquiv(env, 0)
      top == IF stkLoc \in Locals THEN stkLoc ELSE NoLocalId
      same == /\ ~locCouldBeRef(env, op.a1)
              /\ top # NoLocalId
              /\ (top = op.a1 \/ locsAreEquiv(env, top, op.a1))
              /\ locRaw(env, op.a1) = topT(env, 0)
      equivLoc == IF locCouldBeRef(env, op.a1) THEN top
                  ELSE IF top # NoLocalId THEN top ELSE op.a1
      val == topT(env, 0)
      e1 == setLoc(discard(e0, 1), op.a1, val)
      e2 == IF equivLoc # op.a1 /\ equivLoc # NoLocalId
            THEN addLocEquiv(e1, op.a1, equivLoc) ELSE e1
  IN IF same THEN [done |-> FALSE, env |-> e0, val |-> val, equiv |-> top]
     ELSE [done |-> TRUE, env |-> e2, val |-> val, equiv |-> equivLoc]

in_PopL(env, op) ==
  LET p == moveToLocImpl(env, op)
  IN IF p.done THEN p.env ELSE reduce(p.env, <<Ins0("PopC")>>)

in_SetL(env, op) ==
  LET p == moveToLocImpl(env, op)
  IN IF p.done THEN push(p.env, p.val, p.equiv)
     ELSE reduce(p.env, <<Ins0("Nop")>>)

isTypeImpl(env, locOrCell, test) ==
  LET e1 == constprop(env)
  IN IF subtypeOf(locOrCell, test) THEN push(e1, TTrue, NoLocalId)
     ELSE IF ~couldBe(locOrCell, test) THEN push(e1, TFalse, NoLocalId)
     ELSE push(e1, TBool, NoLocalId)

\* isTypeLImpl / isTypeCImpl, for the scalar test and the tests of one type
isTypeLImpl(env, op) ==
  LET e1 == IF ~locCouldBeUninit(env, op.a1)
            THEN constprop(nothrow(env)) ELSE env
      loc == locAsCell(env, op.a1)
  IN IF op.s1 = "Scalar" THEN push(e1, TBool, NoLocalId)
     ELSE isTypeImpl(e1, loc, type_of_istype(op.s1))

isTypeCImpl(env, op) ==
  LET t1 == topT(env, 0)
      e1 == discard(nothrow(env), 1)
  IN IF op.s1 = "Scalar" THEN push(e1, TBool, NoLocalId)
     ELSE isTypeImpl(e1, t1, type_of_istype(op.s1))

in_IsTypeC(env, op) == isTypeCImpl(env, op)
in_IsTypeL(env, op) == isTypeLImpl(env, op)

in_InstanceOfD(env, op) ==
  LET t1 == topT(env, 0)
      testTy == subObj(op.s1)
      result(r) ==
        push(discard(IF r # TBool THEN constprop(nothrow(env))
                     ELSE nothrow(env), 1), r, NoLocalId)
  IN IF resolve_class(op.s1) /\ ~interface_supports_non_objects(op.s1)
     THEN IF subtypeOf(t1, testTy) THEN result(TTrue)
          ELSE IF ~couldBe(t1, testTy) THEN result(TFalse)
          ELSE IF is_opt(t1) /\ subtypeOf(unopt(t1), testTy)
          THEN reduce(env, <<InsS("IsTypeC", 0, 0, "Null", s_empty),
                            Ins0("Not")>>)
          ELSE result(TBool)
     ELSE push(discard(env, 1), TBool, NoLocalId)

\* in(StaticLocCheck): a literal static is stored and the check folded
in_StaticLocCheck(env, op) ==
  LET t == options.localStaticTy
  IN IF HasTv(t)
     THEN reduce(setLocRaw(env, op.a1, t),
                 <<gen_constant(tv(t)), Ins("SetL", op.a1, 0), Ins0("PopC"),
                   Ins0("True")>>)
     ELSE push(setLocRaw(env, op.a1, TGen), TBool, NoLocalId)

\* MemoGet pushes the wrapped function's return type or Uninit, which the
\* lattice widens to any cell
in_MemoGet(env, op) == push(env, TCell, NoLocalId)

\* memoizeImplRetType: the index's answer, held to be an initialized cell
memoizeImplRetType(env) ==
  IF ~subtypeOf(options.memoImplRetTy, TInitCell) THEN TInitCell
  ELSE options.memoImplRetTy

in_IsUninit(env, op) == isTypeImpl(nothrow(env), topT(env, 0), TUninit)

\* a jmpImpl that folds no branch: both edges always get a state
jmpImpl_noFold(env, op, Negate) ==
  LET e1 == discard(nothrow(env), 1)
  IN propagate(e1, op.a1, e1.state)

jmpImpl(env, op, Negate) ==
  LET e0 == nothrow(env)
      location == topStkEquiv(env, 0)
      e == emptiness(topT(env, 0))
      e1 == discard(e0, 1)
  IN IF e = (IF Negate THEN "NonEmpty" ELSE "Empty")
     THEN LET e2 == jmp_setdest(e1, op.a1) IN propagate(e2, op.a1, e2.state)
     ELSE IF e = (IF Negate THEN "Empty" ELSE "NonEmpty")
     THEN jmp_nevertaken(e1)
     ELSE IF fallthrough = op.a1 THEN jmp_nevertaken(e1)
     ELSE IF location = NoLocalId THEN propagate(e1, op.a1, e1.state)
     ELSE IF Negate
          THEN refineLocationJmp(e1, location, assert_nonemptiness, op.a1,
                                 assert_emptiness)
          ELSE refineLocationJmp(e1, location, assert_emptiness, op.a1,
                                 assert_nonemptiness)

in_JmpNZ(env, op) == jmpImpl(env, op, TRUE)
in_JmpZ(env, op) == jmpImpl(env, op, FALSE)

in_RetC(env, op) == doRet(discard(env, 1), topT(env, 0), FALSE)
in_Throw(env, op) == discard(env, 1)
in_Fatal(env, op) == discard(env, 1)
in_Exit(env, op) == push(discard(env, 1), TInitNull, NoLocalId)
in_Unwind(env, op) == env

\* a handler that lets an unconditional jump inside a block pass
in_Jmp_tolerated(env, op) == env

\* always_assert(0 && "blocks should not contain Jmp instructions")
in_Jmp(env, op) == assert_failed(env)
in_JmpNS(env, op) == assert_failed(env)

\* killLocals: nothing is known about any local any more
killLocals(env) ==
  [env EXCEPT !.state.locals = [l \in Locals |-> TGen],
              !.state.equivLocals = [l \in Locals |-> NoLocalId],
              !.state.stack = [i \in 1..Len(@) |->
                                 StkElem(@[i].type,
                                         IF @[i].equiv \in Locals
                                         THEN NoLocalId ELSE @[i].equiv)]]

\* NativeImpl of a function without native type information: a return
\* with effects
in_NativeImpl(env, op) == doRet(killLocals(env), TInitGen, TRUE)

\* not_reached(): no case of dispatch's switch matched
not_reached(env) == assert_failed(env)

\* ----------------------------------------------------------- iterators
NoIterTypes ==
  [count |-> "Any", value |-> TBottom, key |-> TBottom,
   mayThrowOnInit |-> FALSE, mayThrowOnNext |-> FALSE]
UnknownIter == [tracked |-> FALSE, types |-> NoIterTypes]
TrackedIter(ity) == [tracked |-> TRUE, types |-> ity]

IterTypes(count, value, key, mayThrow) ==
  [count |-> count, value |-> value, key |-> key,
   mayThrowOnInit |-> mayThrow, mayThrowOnNext |-> mayThrow]

\* iter_types: what iterating a value of type t yields; only containers
\* are known not to throw, and only vecs of a known size have a count
iter_types(t) ==
  IF ~subtypeOf(t, TArr \cup TVec) \/ t = TBottom
  THEN IterTypes("Any", TInitCell, TInitCell, TRUE)
  ELSE IF subtypeOf(t, TVecE)
  THEN IterTypes("Empty", TBottom, TBottom, FALSE)
  ELSE IF subtypeOf(t, TVec1)
  THEN IterTypes("Single", ival(1), ival(0), FALSE)
  ELSE IF subtypeOf(t, TVecE \cup TVec1)
  THEN IterTypes("ZeroOrOne", ival(1), ival(0), FALSE)
  ELSE IF subtypeOf(t, TVec1 \cup TVec2)
  THEN IterTypes("NonEmpty", TInt \cup TStr, TInt, FALSE)
  ELSE IterTypes("Any", TInitCell, TInt \cup TStr, FALSE)

freeIter(env, i) == [env EXCEPT !.state.iters[i] = UnknownIter]
setIter(env, i, it) == [env EXCEPT !.state.iters[i] = it]
\* mayReadLocal records a use of the local; it changes no type
mayReadLocal(env, l) == env

\* IterInit's "taken": the iterator is freed and the state goes to the
\* target as it is, before any local is set
iterInitTaken(env, op) ==
  LET e1 == freeIter(env, op.a1)
  IN propagate(e1, op.a2, e1.state)

\* an IterInit that enters the loop whatever the count
in_IterInit_entersBody(env, op) ==
  LET ity == iter_types(topT(env, 0))
      e0 == discard(env, 1)
      e1 == IF ~ity.mayThrowOnInit THEN nothrow(e0) ELSE e0
  IN setIter(setLoc(iterInitTaken(e1, op), op.a3, ity.value), op.a1,
             TrackedIter(ity))

in_IterInit(env, op) ==
  LET ity == iter_types(topT(env, 0))
      e0 == discard(env, 1)
      e1 == IF ~ity.mayThrowOnInit THEN nothrow(e0) ELSE e0
      fall(e) == setIter(setLoc(e, op.a3, ity.value), op.a1,
                         TrackedIter(ity))
  IN CASE ity.count = "Empty" ->
            jmp_setdest(mayReadLocal(iterInitTaken(e1, op), op.a3), op.a2)
       [] ity.count \in {"Single", "NonEmpty"} -> jmp_nevertaken(fall(e1))
       [] ity.count \in {"ZeroOrOne", "Any"} -> fall(iterInitTaken(e1, op))

\* an IterInitK that tracks the iterator of an empty source
in_IterInitK_tracksEmpty(env, op) ==
  LET ity == iter_types(topT(env, 0))
      e0 == discard(env, 1)
      e1 == IF ~ity.mayThrowOnInit THEN nothrow(e0) ELSE e0
      e2 == iterInitTaken(e1, op)
  IN IF ity.count = "Empty"
     THEN jmp_setdest(setIter(e2, op.a1, TrackedIter(ity)), op.a2)
     ELSE setIter(setLoc(setLoc(e2, op.a3, ity.value), op.a4, ity.key),
                  op.a1, TrackedIter(ity))

in_IterInitK(env, op) ==
  LET ity == iter_types(topT(env, 0))
      e0 == discard(env, 1)
      e1 == IF ~ity.mayThrowOnInit THEN nothrow(e0) ELSE e0
      fall(e) == setIter(setLoc(setLoc(e, op.a3, ity.value), op.a4,
                                ity.key),
                         op.a1, TrackedIter(ity))
  IN CASE ity.count = "Empty" ->
            jmp_setdest(mayReadLocal(mayReadLocal(iterInitTaken(e1, op),
                                                  op.a3), op.a4),
                        op.a2)
       [] ity.count \in {"Single", "NonEmpty"} -> jmp_nevertaken(fall(e1))
       [] ity.count \in {"ZeroOrOne", "Any"} -> fall(iterInitTaken(e1, op))

\* IterNext's match on the iterator: the env with the element assigned
\* where there is a next element to assign, and whether the jump back is
\* known not to be taken
iterNextMatch(env, op, withKey) ==
  LET it == env.state.iters[op.a1]
      ty == it.types
      set(e, v, k) == IF withKey THEN setLoc(setLoc(e, op.a3, v), op.a4, k)
                      ELSE setLoc(e, op.a3, v)
      e1 == IF ~ty.mayThrowOnNext THEN nothrow(env) ELSE env
  IN IF ~it.tracked
     THEN [env |-> set(env, TInitCell, TInitCell), noTaken |-> FALSE]
     ELSE CASE ty.count \in {"Single", "ZeroOrOne"} ->
                 [env |-> e1, noTaken |-> TRUE]
            [] ty.count \in {"NonEmpty", "Any"} ->
                 [env |-> set(e1, ty.value, ty.key), noTaken |-> FALSE]
            [] ty.count = "Empty" ->
                 [env |-> assert_failed(e1), noTaken |-> FALSE]

\* an IterNext that leaves the element in the value local on the way out
in_IterNext_keepsElem(env, op) ==
  LET m == iterNextMatch(env, op, FALSE)
  IN IF m.env.aborted THEN m.env
     ELSE IF m.noTaken THEN freeIter(jmp_nevertaken(m.env), op.a1)
     ELSE freeIter(propagate(m.env, op.a2, m.env.state), op.a1)

in_IterNext(env, op) ==
  LET curLoc3 == locRaw(env, op.a3)
      m == iterNextMatch(env, op, FALSE)
  IN IF m.env.aborted THEN m.env
     ELSE IF m.noTaken THEN freeIter(jmp_nevertaken(m.env), op.a1)
     ELSE setLocRaw(freeIter(propagate(m.env, op.a2, m.env.state), op.a1),
                    op.a3, curLoc3)

in_IterNextK(env, op) ==
  LET curLoc3 == locRaw(env, op.a3)
      curLoc4 == locRaw(env, op.a4)
      m == iterNextMatch(env, op, TRUE)
  IN IF m.env.aborted THEN m.env
     ELSE IF m.noTaken THEN freeIter(jmp_nevertaken(m.env), op.a1)
     ELSE setLocRaw(
            setLocRaw(freeIter(propagate(m.env, op.a2, m.env.state),
                               op.a1),
                      op.a3, curLoc3),
            op.a4, curLoc4)

in_IterFree(env, op) == freeIter(nothrow(env), op.a1)

\* ------------------------------------------------------- constants
\* the index knows the constant K and no other
lookup_constant_known(name) == name = "K"
lookup_constant(name) == ival(1)
\* the constant a literal string names
CnsOfStr(v) == IF v = 0 THEN "A" ELSE "K"
isAllowedAsConstantValue(x) == x.k \in LiteralKinds

doCns(env, str, fallback) ==
  IF ~options.HardConstProp THEN push(env, TInitCell, NoLocalId)
  ELSE IF ~lookup_constant_known(str)
  THEN push([env EXCEPT
               !.cnsMap[str] = IF @ = kAbsent THEN kReadOnlyConstant ELSE @,
               !.readsUntrackedConstants = TRUE],
            TInitCell, NoLocalId)
  ELSE IF strictSubtypeOf(lookup_constant(str), TInitCell)
  THEN push(constprop(env), lookup_constant(str), NoLocalId)
  ELSE push(env, lookup_constant(str), NoLocalId)

in_Cns(env, op) == doCns(env, op.s1, s_empty)

\* the cell DefCns records for a value of type t
defCnsVal(t) ==
  IF HasTv(t) /\ isAllowedAsConstantValue(tv(t)) THEN tv(t)
  ELSE Val("Uninit", 0)

\* a DefCns that records its value over whatever the map holds
in_DefCns_overwrites(env, op) ==
  LET val == defCnsVal(topT(env, 0))
      e1 == discard(env, 1)
  IN push(IF options.HardConstProp THEN [e1 EXCEPT !.cnsMap[op.s1] = val]
          ELSE e1,
          TBool, NoLocalId)

in_DefCns(env, op) ==
  LET val == defCnsVal(topT(env, 0))
      e1 == discard(env, 1)
      cur == env.cnsMap[op.s1]
      e2 == IF cur = kAbsent \/ cur = kReadOnlyConstant
            THEN [e1 EXCEPT !.cnsMap[op.s1] = val]
            ELSE [e1 EXCEPT !.cnsMap[op.s1].k = "DynamicConstant"]
  IN push(IF options.HardConstProp THEN e2 ELSE e1, TBool, NoLocalId)

\* fcallKnownImpl on defined('name'): a name the index does not know is
\* not to be treated as a persistent constant
definedProbe(env, ar, args, numArgs) ==
  IF /\ options.HardConstProp /\ numArgs = 1 /\ ar.func = "defined"
     /\ HasTv(args[1]) /\ tv(args[1]).k = "Str"
     /\ ~lookup_constant_known(CnsOfStr(tv(args[1]).v))
  THEN [env EXCEPT
          !.cnsMap[CnsOfStr(tv(args[1]).v)].k = "DynamicConstant"]
  ELSE env

\* ------------------------------------------------- call-site handlers
RECURSIVE pushN(_, _, _)
pushN(env, n, t) ==
  IF n <= 0 THEN env ELSE pushN(push(env, t, NoLocalId), n - 1, t)

\* the element types pushed for a multi-value return of a sized vec:
\* elements 1 .. unpack-1, then element 0
RECURSIVE pushVecElems(_, _, _, _)
pushVecElems(env, ty, i, unpack) ==
  IF i >= unpack THEN push(env, vec_elem(ty, 0), NoLocalId)
  ELSE pushVecElems(push(env, vec_elem(ty, i), NoLocalId), ty, i + 1, unpack)

\* a push of the return type that never marks the state unreachable
pushCallReturnType_reachable(env, ty, unpack) ==
  IF unpack # kNoUnpack
  THEN pushN(discard(env, unpack - 1), unpack, TInitCell)
  ELSE push(env, ty, NoLocalId)

pushCallReturnType(env, ty, unpack) ==
  LET e1 == IF ty = TBottom THEN unreachable(env) ELSE env
  IN IF unpack # kNoUnpack
     THEN LET e2 == discard(e1, unpack - 1)
          IN IF is_specialized_vec(ty) THEN pushVecElems(e2, ty, 1, unpack)
             ELSE pushN(e2, unpack, TInitCell)
     ELSE push(e1, ty, NoLocalId)

\* a failed fold that leaves the record's function foldable
fcallFoldFail_keepsFlag(env, numArgs, unpack) ==
  push(discard(fpiPop(env), numArgs), TBottom, NoLocalId)

fcallFoldFail(env, numArgs, unpack) ==
  LET e1 == discard(fpiPop(fpiNotFoldable(env)), numArgs)
  IN IF unpack # kNoUnpack THEN pushN(e1, unpack, TBottom)
     ELSE push(e1, TBottom, NoLocalId)

\* a known call that leaves the pending-call record in place
fcallKnownImpl_keepsRecord(env, numArgs, unpack) ==
  pushCallReturnType(discard(env, numArgs),
                     lookup_return_type(fpiTop(env).func), unpack)

fcallKnownImpl(env, numArgs, unpack) ==
  LET ar == fpiTop(env)
      args == [i \in 1..numArgs |-> topT(env, numArgs - i)]
      fty == lookup_foldable_return_type(ar.func, args)
      repl == [i \in 1..numArgs |-> Ins0("PopC")]
                \o <<gen_constant(tv(fty)), Ins0("RGetCNop")>>
      ty == lookup_return_type(ar.func)
      ty2 == lookup_return_type(ar.fallbackFunc)
      e1 == definedProbe(discard(fpiPop(env), numArgs), ar, args, numArgs)
  IN IF options.ConstantFoldBuiltins /\ ar.foldable
     THEN IF unpack = kNoUnpack /\ HasTv(fty)
          THEN reduce(fpiPop(env), repl)
          ELSE fcallFoldFail(env, numArgs, unpack)
     ELSE IF ar.fallbackFunc = s_empty
          THEN pushCallReturnType(e1, ty, unpack)
          ELSE pushCallReturnType(e1, union_of(ty, ty2), unpack)

fcallGeneric(env, numArgs) ==
  push(fpiPop(discard(env, numArgs)), TInitGen, NoLocalId)

fcallGenericM(env, numArgs, numRets) ==
  pushN(discard(fpiPop(discard(env, numArgs)), numRets - 1), numRets,
        TInitCell)

in_FCall(env, op) ==
  LET ar == fpiTop(env)
  IN IF ar.func # s_empty /\ ar.fallbackFunc = s_empty
     THEN IF ar.kind = "Func"
          THEN reduce(env, <<InsS("FCallD", op.a1, 0, s_empty, ar.func)>>)
          ELSE IF ar.cls # s_empty
          THEN reduce(env, <<InsS("FCallD", op.a1, 0, ar.cls, ar.func)>>)
          ELSE fcallKnownImpl(env, op.a1, kNoUnpack)
     ELSE fcallGeneric(env, op.a1)

\* a comparison that looks at the function only
namesDiffer_funcOnly(ar, op) == ar.func # s_empty /\ ar.func # op.s2

\* the record resolved a function or a class that the direct call
\* does not name
namesDiffer(ar, op) ==
  \/ ar.func # s_empty /\ ar.func # op.s2
  \/ ar.cls # s_empty /\ ar.cls # op.s1

\* the direct call naming the record's class and function
reissue(op, ar) == InsS(op.op, op.a1, op.a2, ar.cls, ar.func)

in_FCallD(env, op) ==
  LET ar == fpiTop(env)
  IN IF namesDiffer(ar, op)
     THEN reduce(env, <<reissue(op, ar)>>)
     ELSE IF ar.func # s_empty THEN fcallKnownImpl(env, op.a1, kNoUnpack)
     ELSE fcallGeneric(env, op.a1)

in_FCallM(env, op) ==
  LET ar == fpiTop(env)
  IN IF ar.func # s_empty /\ ar.fallbackFunc = s_empty
     THEN IF ar.kind = "Func"
          THEN reduce(env,
                      <<InsS("FCallDM", op.a1, op.a2, s_empty, ar.func)>>)
          ELSE IF ar.cls # s_empty
          THEN reduce(env,
                      <<InsS("FCallDM", op.a1, op.a2, ar.cls, ar.func)>>)
          ELSE fcallKnownImpl(env, op.a1, op.a2)
     ELSE fcallGenericM(env, op.a1, op.a2)

in_FCallDM(env, op) ==
  LET ar == fpiTop(env)
  IN IF namesDiffer(ar, op)
     THEN reduce(env, <<reissue(op, ar)>>)
     ELSE IF ar.func # s_empty THEN fcallKnownImpl(env, op.a1, op.a2)
     ELSE fcallGenericM(env, op.a1, op.a2)

fcallArrayImpl(env, arg, unpack) ==
  LET ar == fpiTop(env)
      e1 == fpiPop(discard(env, arg))
      ty == lookup_return_type(ar.func)
      ty2 == lookup_return_type(ar.fallbackFunc)
  IN IF ar.foldable
     THEN push(fpiPop(fpiNotFoldable(discard(env, arg))), TBottom, NoLocalId)
     ELSE IF ar.func # s_empty
     THEN IF ar.fallbackFunc = s_empty
          THEN pushCallReturnType(e1, ty, unpack)
          ELSE pushCallReturnType(e1, union_of(ty, ty2), unpack)
     ELSE IF unpack # kNoUnpack
     THEN pushN(discard(e1, unpack - 1), unpack, TInitCell)
     ELSE push(e1, TInitGen, NoLocalId)

\* pushTypeFromWH: the lattice has no specialized wait handles
pushTypeFromWH(env, t) ==
  IF ~couldBe(t, TObj) THEN unreachable(push(env, TBottom, NoLocalId))
  ELSE push(env, TInitCell, NoLocalId)

in_Await(env, op) == pushTypeFromWH(discard(env, 1), topT(env, 0))

in_FCallAwait(env, op) ==
  LET ar == fpiTop(env)
  IN IF ar.foldable
     THEN push(fpiPop(fpiNotFoldable(discard(env, op.a1))), TBottom,
               NoLocalId)
     ELSE IF namesDiffer(ar, op)
     THEN reduce(env, <<reissue(op, ar)>>)
     ELSE impl(env, <<InsS("FCallD", op.a1, 0, op.s1, op.s2),
                      Ins0("UnboxRNop"), Ins0("Await")>>)

in_FCallArray(env, op) == fcallArrayImpl(env, 1, kNoUnpack)
in_FCallUnpack(env, op) == fcallArrayImpl(env, op.a1, kNoUnpack)
in_FCallUnpackM(env, op) == fcallArrayImpl(env, op.a1, op.a2)

in_FPushFuncD(env, op) ==
  LET ar == ActRec("Func", s_empty, op.s2, s_empty, FALSE)
      e1 == fpiPush(env, ar)
  IN IF fpiTop(e1).foldable THEN reduce(e1, <<Ins0("Nop")>>) ELSE e1

\* resolve_method answers the method that was named
in_FPushClsMethodD(env, op) ==
  LET rcls == IF resolve_class(op.s1) THEN op.s1 ELSE s_empty
      ar == ActRec("ClsMeth", rcls, op.s2, s_empty, FALSE)
      e1 == fpiPush(env, ar)
  IN IF fpiTop(e1).foldable THEN reduce(e1, <<Ins0("Nop")>>) ELSE e1

in_FPushFunc(env, op) ==
  LET t1 == topT(env, 0)
      e1 == discard(env, 1)
  IN IF HasTv(t1) /\ tv(t1).k = "Str"
     THEN reduce(env, <<Ins0("PopC"),
                        InsS("FPushFuncD", op.a1, 0, s_empty,
                             FuncOfStr(tv(t1).v))>>)
     ELSE IF subtypeOf(t1, TObj)
     THEN fpiPush(e1, ActRec("ObjInvoke", s_empty, s_empty, s_empty, FALSE))
     ELSE IF subtypeOf(t1, TStr)
     THEN fpiPush(e1, ActRec("Func", s_empty, s_empty, s_empty, FALSE))
     ELSE fpiPush(e1, ActRec("Unknown", s_empty, s_empty, s_empty, FALSE))

\* ------------------------------------------ the strength-reduction engine
\* impl_vec's first three assignments: the flags of an empty sequence
impl_reset(flags) ==
  [flags EXCEPT !.wasPEI = FALSE, !.canConstProp = TRUE,
                !.effectFree = TRUE]

\* the flags a sub-instruction is dispatched with
impl_sub_flags(flags) ==
  [flags EXCEPT !.wasPEI = TRUE, !.canConstProp = FALSE,
                !.effectFree = FALSE,
                !.strengthReduced = <<>>, !.hasReduced = FALSE]

\* applyConstProp: a const-prop-eligible sub-instruction whose pushed
\* values are all literals is made effect-free and no-throw
applyConstProp(env, it) ==
  IF env.flags.effectFree /\ ~env.flags.wasPEI THEN env
  ELSE IF ~AllScalarTop(env.state.stack, numPush(it)) THEN env
  ELSE [env EXCEPT !.flags.effectFree = TRUE, !.flags.wasPEI = FALSE]

\* collect.propagate_constants: when every value the instruction pushed is
\* a literal, emit pops of its inputs and pushes of the literals
propagate_constants_ok(env, it) ==
  AllScalarTop(env.state.stack, numPush(it))
propagate_constants_gen(env, it) ==
  [i \in 1..numPop(it) |-> Ins0("PopC")] \o
  [i \in 1..numPush(it) |->
     gen_constant(tv(env.state.stack[depth(env) - numPush(it) + i].type))]

\* bookkeeping that never marks the state unreachable
impl_bookkeep_noTF(e2, red, it, cur) ==
  IF e2.flags.hasReduced
  THEN [env |-> e2,
        cur |-> IF red THEN cur \o e2.flags.strengthReduced ELSE cur]
  ELSE IF e2.flags.canConstProp
  THEN [env |-> applyConstProp(e2, it),
        cur |-> IF red THEN Append(cur, it) ELSE cur]
  ELSE [env |-> e2, cur |-> IF red THEN Append(cur, it) ELSE cur]

\* The bookkeeping after a sub-instruction was dispatched (e2 is the
\* environment it left): a control-ending form makes the state
\* unreachable, the reduction is collected, literal results are upgraded.
impl_bookkeep(e2, red, it, cur) ==
  LET sr == e2.flags.strengthReduced
      e3r == IF TF(sr[Len(sr)].op) THEN unreachable(e2) ELSE e2
      e3 == IF TF(it.op) THEN unreachable(e2) ELSE e2
      usecb == options.propagate_constants /\ propagate_constants_ok(e3, it)
      e4 == [e3 EXCEPT !.flags.canConstProp = FALSE,
                       !.flags.wasPEI = FALSE,
                       !.flags.effectFree = TRUE]
  IN IF e2.flags.hasReduced
     THEN [env |-> e3r, cur |-> IF red THEN cur \o sr ELSE cur]
     ELSE IF red
     THEN IF e3.flags.canConstProp
          THEN IF options.propagate_constants
               THEN IF usecb
                    THEN [env |-> e4,
                          cur |-> cur \o propagate_constants_gen(e3, it)]
                    ELSE [env |-> e3, cur |-> Append(cur, it)]
               ELSE [env |-> applyConstProp(e3, it), cur |-> Append(cur, it)]
          ELSE [env |-> e3, cur |-> Append(cur, it)]
     ELSE IF e3.flags.canConstProp
     THEN [env |-> applyConstProp(e3, it), cur |-> cur]
     ELSE [env |-> e3, cur |-> cur]

\* One sub-instruction: dispatch it with fresh flags and do the
\* bookkeeping.  The result holds the flags obtained for the
\* sub-instruction (not yet merged) and the reduction collected so far.
impl_sub(env, red, it, cur) ==
  impl_bookkeep(dispatch([env EXCEPT !.flags = impl_sub_flags(@)], it),
                red, it, cur)

\* a merge that keeps only the latest sub-instruction's flags
impl_merge_latest(flags, before) == flags

\* "If any of the opcodes in the impl list said they could throw, then
\* the whole thing could throw": merge a sub-instruction's flags into the
\* flags accumulated before it
impl_merge(flags, before) ==
  [flags EXCEPT !.wasPEI = flags.wasPEI \/ before.wasPEI,
                !.canConstProp = flags.canConstProp /\ before.canConstProp,
                !.effectFree = flags.effectFree /\ before.effectFree]

\* the assignment of flags.strengthReduced that ends impl_vec
impl_finish(env, red, cur) ==
  IF red
  THEN [env EXCEPT !.flags.strengthReduced = cur, !.flags.hasReduced = TRUE]
  ELSE [env EXCEPT !.flags.strengthReduced = <<>>,
                   !.flags.hasReduced = FALSE]

\* the end of an iteration: r is the sub-instruction's result, before the
\* flags accumulated ahead of it
impl_iter_merge(r, before) ==
  [env |-> [r.env EXCEPT !.flags = impl_merge(r.env.flags, before)],
   cur |-> r.cur]

\* one iteration of impl_vec's loop
impl_iter(env, red, it, cur) ==
  impl_iter_merge(impl_sub(env, red, it, cur), env.flags)

RECURSIVE impl_loop(_, _, _, _, _)
\* after iteration i (r is its result): break on an unreachable state
impl_next(r, red, bcs, i) ==
  IF r.env.state.unreachable THEN impl_finish(r.env, red, r.cur)
  ELSE impl_loop(r.env, red, bcs, i + 1, r.cur)

impl_loop(env, red, bcs, i, cur) ==
  IF i > Len(bcs) THEN impl_finish(env, red, cur)
  ELSE impl_next(impl_iter(env, red, bcs[i], cur), red, bcs, i)

impl_vec(env, reduce_, bcs) ==
  impl_loop([env EXCEPT !.flags = impl_reset(@)],
            reduce_ /\ options.StrengthReduce, bcs, 1, <<>>)

\* ------------------------------------------------------------- dispatch
dispatch(env, op) ==
  CASE op.op = "Nop" -> in_Nop(env, op)
    [] op.op = "PopC" -> in_PopC(env, op)
    [] op.op = "Dup" -> in_Dup(env, op)
    [] op.op = "Null" -> in_Null(env, op)
    [] op.op = "NullUninit" -> in_NullUninit(env, op)
    [] op.op = "True" -> in_True(env, op)
    [] op.op = "False" -> in_False(env, op)
    [] op.op = "Int" -> in_Int(env, op)
    [] op.op = "Double" -> in_Double(env, op)
    [] op.op = "String" -> in_String(env, op)
    [] op.op = "Same" -> in_Same(env, op)
    [] op.op = "NSame" -> in_NSame(env, op)
    [] op.op = "Eq" -> in_Eq(env, op)
    [] op.op = "Neq" -> in_Neq(env, op)
    [] op.op = "RGetCNop" -> in_RGetCNop(env, op)
    [] op.op = "UnboxRNop" -> in_UnboxRNop(env, op)
    [] op.op = "Print" -> in_Print(env, op)
    [] op.op = "Add" -> arithImpl(env, op)
    [] op.op = "Not" -> in_Not(env, op)
    [] op.op = "CastInt" -> in_CastInt(env, op)
    [] op.op = "CGetL" -> in_CGetL(env, op)
    [] op.op = "CUGetL" -> in_CUGetL(env, op)
    [] op.op = "UnsetL" -> in_UnsetL(env, op)
    [] op.op = "PopL" -> in_PopL(env, op)
    [] op.op = "SetL" -> in_SetL(env, op)
    [] op.op = "IsTypeC" -> in_IsTypeC(env, op)
    [] op.op = "IsTypeL" -> in_IsTypeL(env, op)
    [] op.op = "InstanceOfD" -> in_InstanceOfD(env, op)
    [] op.op = "StaticLocCheck" -> in_StaticLocCheck(env, op)
    [] op.op = "MemoGet" -> in_MemoGet(env, op)
    [] op.op = "IsUninit" -> in_IsUninit(env, op)
    [] op.op = "JmpNZ" -> in_JmpNZ(env, op)
    [] op.op = "JmpZ" -> in_JmpZ(env, op)
    [] op.op = "RetC" -> in_RetC(env, op)
    [] op.op = "Throw" -> in_Throw(env, op)
    [] op.op = "Fatal" -> in_Fatal(env, op)
    [] op.op = "Exit" -> in_Exit(env, op)
    [] op.op = "Unwind" -> in_Unwind(env, op)
    [] op.op = "FPushFuncD" -> in_FPushFuncD(env, op)
    [] op.op = "FPushFunc" -> in_FPushFunc(env, op)
    [] op.op = "FCall" -> in_FCall(env, op)
    [] op.op = "FCallD" -> in_FCallD(env, op)
    [] op.op = "FCallM" -> in_FCallM(env, op)
    [] op.op = "FCallDM" -> in_FCallDM(env, op)
    [] op.op = "FCallAwait" -> in_FCallAwait(env, op)
    [] op.op = "Await" -> in_Await(env, op)
    [] op.op = "FPushClsMethodD" -> in_FPushClsMethodD(env, op)
    [] op.op = "FCallArray" -> in_FCallArray(env, op)
    [] op.op = "FCallUnpack" -> in_FCallUnpack(env, op)
    [] op.op = "FCallUnpackM" -> in_FCallUnpackM(env, op)
    [] op.op = "Jmp" -> in_Jmp(env, op)
    [] op.op = "JmpNS" -> in_JmpNS(env, op)
    [] op.op = "NativeImpl" -> in_NativeImpl(env, op)
    [] op.op = "IterInit" -> in_IterInit(env, op)
    [] op.op = "IterInitK" -> in_IterInitK(env, op)
    [] op.op = "IterNext" -> in_IterNext(env, op)
    [] op.op = "IterNextK" -> in_IterNextK(env, op)
    [] op.op = "IterFree" -> in_IterFree(env, op)
    [] op.op = "Cns" -> in_Cns(env, op)
    [] op.op = "DefCns" -> in_DefCns(env, op)
    [] OTHER -> not_reached(env)

\* ------------------------------------------------- the branch-fusion layer
invertJmp(jmp) ==
  IF jmp.op = "JmpZ" THEN [jmp EXCEPT !.op = "JmpNZ"]
  ELSE [jmp EXCEPT !.op = "JmpZ"]

typeTestPropagate(env, valTy, testTy, failTy, jmp) ==
  LET e0 == nothrow(env)
      takenOnSuccess == jmp.op = "JmpNZ"
      taken(e) == LET e1 == jmp_setdest(e, jmp.a1)
                  IN propagate(e1, jmp.a1, e1.state)
      eS == push(e0, valTy, NoLocalId)
      eF == push(e0, failTy, NoLocalId)
      eT == push(e0, IF takenOnSuccess THEN testTy ELSE failTy, NoLocalId)
      eT2 == discard(propagate(eT, jmp.a1, eT.state), 1)
  IN IF subtypeOf(valTy, testTy) \/ subtypeOf(failTy, TBottom)
     THEN IF takenOnSuccess THEN taken(eS) ELSE jmp_nevertaken(eS)
     ELSE IF ~couldBe(valTy, testTy)
     THEN IF takenOnSuccess THEN jmp_nevertaken(eF) ELSE taken(eF)
     ELSE push(eT2, IF takenOnSuccess THEN failTy ELSE testTy, NoLocalId)

group_IsUninit(env, jmp) ==
  LET valTy == topT(env, 0)
  IN typeTestPropagate(discard(env, 1), valTy, TUninit,
                       remove_uninit(valTy), jmp)

\* group(MemoGet, IsUninit, Jmp)
\* got is the env after impl(get)
group_MemoGet(got, jmp) ==
  typeTestPropagate(discard(got, 1), topT(got, 0), TUninit,
                    memoizeImplRetType(got), jmp)

\* isTypeHelper's refinements of a type t for the test of testTy
was_true(testTy, t) ==
  IF subtypeOf(testTy, TUninit) THEN TUninit
  ELSE IF subtypeOf(testTy, TNull)
  THEN (IF couldBe(t, TUninit)
        THEN (IF couldBe(t, TInitNull) THEN TNull ELSE TUninit)
        ELSE TInitNull)
  ELSE IF is_opt(t) /\ subtypeOf(unopt(t), testTy) THEN unopt(t)
  ELSE testTy

\* a was_false that narrows as if the test had succeeded
was_false_asTrue(testTy, t) == was_true(testTy, t)

was_false(testTy, t) ==
  IF subtypeOf(testTy, TUninit) THEN remove_uninit(t)
  ELSE IF subtypeOf(testTy, TNull)
  THEN (IF is_opt(remove_uninit(t)) THEN unopt(remove_uninit(t))
        ELSE remove_uninit(t))
  ELSE IF is_opt(t) /\ subtypeOf(unopt(t), testTy) THEN TInitNull
  ELSE t

\* bail is the env after impl(istype, jmp)
isTypeHelper(env, typeOp, location, istype, jmp, bail) ==
  LET val == IF istype.op = "IsTypeC" THEN topT(env, 0)
             ELSE locRaw(env, location)
      testTy == type_of_istype(typeOp)
      e1 == IF istype.op = "IsTypeC" THEN discard(nothrow(env), 1)
            ELSE IF ~locCouldBeUninit(env, location) THEN nothrow(env)
            ELSE env
      negate == jmp.op = "JmpNZ"
      pre(t) == IF negate THEN was_true(testTy, t) ELSE was_false(testTy, t)
      post(t) == IF negate THEN was_false(testTy, t) ELSE was_true(testTy, t)
  IN IF typeOp \in {"Scalar", "ArrLike"} THEN bail
     ELSE IF \/ ~subtypeOf(val, TCell)
             \/ subtypeOf(val, testTy)
             \/ ~couldBe(val, testTy)
     THEN bail
     ELSE refineLocationJmp(e1, location, pre, jmp.a1, post)

group_IsTypeL(env, istype, jmp, bail) ==
  isTypeHelper(env, istype.s1, istype.a1, istype, jmp, bail)

\* group(IsTypeC, Jmp) and group(IsTypeC, Not, Jmp): bail is the env after
\* impl of the group as written when the value has no location, and after
\* impl(istype, jmp) otherwise
group_IsTypeC(env, istype, jmp, bail) ==
  IF topStkEquiv(env, 0) = NoLocalId THEN bail
  ELSE isTypeHelper(env, istype.s1, topStkEquiv(env, 0), istype, jmp, bail)

\* peekLocation: the type known for a location, i slots down for a
\* duplicate
peekLocation(env, l, i) ==
  IF l = StackDupId THEN topT(env, i) ELSE locRaw(env, l)

\* bail is the env after impl(inst, jmp)
instanceOfJmpImpl(env, inst, jmp, bail) ==
  LET locId == topStkEquiv(env, 0)
      val == peekLocation(env, locId, 1)
      instTy == subObj(inst.s1)
      fail_implies_null == is_opt(val) /\ subtypeOf(unopt(val), instTy)
      negate == jmp.op = "JmpNZ"
      result(t, pass) ==
        IF pass THEN instTy
        ELSE IF fail_implies_null
        THEN (IF couldBe(t, TUninit) THEN TNull ELSE TInitNull)
        ELSE t
      pre(t) == result(t, negate)
      post(t) == result(t, ~negate)
  IN IF locId = NoLocalId \/ interface_supports_non_objects(inst.s1)
     THEN bail
     ELSE IF couldBe(val, TRef) THEN assert_failed(env)
     ELSE IF ~resolve_class(inst.s1) THEN bail
     ELSE IF subtypeOf(val, instTy) \/ ~couldBe(val, instTy)
     THEN bail
     ELSE refineLocationJmp(discard(env, 1), locId, pre, jmp.a1, post)

\* staticLocHelper: the local is bound to the static; found tells that the
\* static's inferred type is a literal
staticLocHelper(env, l) ==
  LET t == options.localStaticTy
  IN IF HasTv(t) THEN [found |-> TRUE, env |-> setLocRaw(env, l, t)]
     ELSE [found |-> FALSE, env |-> setLocRaw(env, l, TRef)]

\* bail is the env after impl(slc, jmp) run on what staticLocHelper left
staticLocCheckJmpImpl(env, slc, jmp, bail) ==
  LET takenOnInit == jmp.op = "JmpNZ"
      save == env.state
      h == staticLocHelper(env, slc.a1)
      e1 == h.env
  IN IF h.found THEN bail
     ELSE IF subtypeOf(options.localStaticTy, TBottom)
     THEN IF takenOnInit
          THEN jmp_nevertaken([e1 EXCEPT !.state = save])
          ELSE jmp_setdest(propagate(e1, jmp.a1, save), jmp.a1)
     ELSE IF takenOnInit
          THEN [propagate(e1, jmp.a1, e1.state) EXCEPT !.state = save]
          ELSE propagate(e1, jmp.a1, save)

\* ------------------------------------------- Same / NSame with a jump
TOptObj == TObj \cup TInitNull

\* a merge that moves only the operand's own local
mergeLocEquiv_single(env, loc, loc1) ==
  addLocEquiv(killLocEquiv(env, loc), loc, loc1)

\* handle_same's loop: every local of loc's ring joins the ring of loc1
RECURSIVE mergeLocEquiv(_, _, _)
mergeLocEquiv(env, loc, loc1) ==
  IF findLocEquiv(env, loc) = NoLocalId THEN addLocEquiv(env, loc, loc1)
  ELSE mergeLocEquiv(addLocEquiv(killLocEquiv(env, loc), loc, loc1),
                     findLocEquiv(env, loc), loc1)

\* the two operands may be recorded as one value
canAssertEquiv(loc0, loc1, ty0, ty1) ==
  /\ loc0 \in Locals /\ loc1 \in Locals
  /\ \/ subtypeOf(ty0, TOptObj)
     \/ subtypeOf(ty1, TOptObj)
     \/ subtypeOf(ty0, TUnc) /\ subtypeOf(ty1, TUnc)

\* handle_same's refinement of a type ty by the operands' intersection
sameRefined(isect, ty) ==
  IF ~couldBe(ty, TUninit) \/ ~couldBe(isect, TNull)
  THEN (IF subtypeOf(ty, TUnc) THEN intersection_of(ty, isect)
        ELSE loosen_staticness(intersection_of(ty, isect)))
  ELSE IF subtypeOf(isect, TNull)
  THEN (IF couldBe(ty, TInitNull) THEN TNull ELSE TUninit)
  ELSE ty

handle_same(env, loc0, loc1, ty0, ty1, isect) ==
  LET merge == canAssertEquiv(loc0, loc1, ty0, ty1)
      e1 == IF merge THEN mergeLocEquiv(env, loc0, loc1) ELSE env
      refine(ty) == sameRefined(isect, ty)
  IN IF merge /\ (loc0 = loc1 \/ locsAreEquiv(env, loc0, loc1))
     THEN assert_failed(env)
     ELSE refineLocation(e1, IF loc1 # NoLocalId THEN loc1 ELSE loc0, refine)

\* handle_differ_side's refinement of a type t that differs from a ty
differRefined(ty, t) ==
  IF subtypeOf(ty, TNull)
  THEN (IF is_opt(remove_uninit(t)) THEN unopt(remove_uninit(t))
        ELSE remove_uninit(t))
  ELSE IF strictSubtypeOf(ty, TBool) /\ subtypeOf(t, TBool)
  THEN (IF ty = TFalse THEN TTrue ELSE TFalse)
  ELSE t

handle_differ_side(env, location, ty) ==
  LET refine(t) == differRefined(ty, t)
  IN IF subtypeOf(ty, TInitNull) \/ strictSubtypeOf(ty, TBool)
     THEN refineLocation(env, location, refine)
     ELSE env

handle_differ(env, loc0, loc1, ty0, ty1) ==
  LET e1 == IF loc0 # NoLocalId THEN handle_differ_side(env, loc0, ty1)
            ELSE env
  IN IF loc1 # NoLocalId THEN handle_differ_side(e1, loc1, ty0) ELSE e1

\* a sameJmpImpl that forgets to restore the saved state
sameJmpRest_leaky(taken, save, toTarget, loc0, loc1, ty0, ty1, isect) ==
  IF toTarget THEN handle_differ(taken, loc0, loc1, ty0, ty1)
  ELSE handle_same(taken, loc0, loc1, ty0, ty1, isect)

\* sameJmpImpl after the jump edge was propagated: the saved state comes
\* back and the other outcome's refinement is applied to it; toTarget
\* tells that the jump is taken when the operands are the same
sameJmpRest(taken, save, toTarget, loc0, loc1, ty0, ty1, isect) ==
  IF toTarget
  THEN handle_differ([taken EXCEPT !.state = save], loc0, loc1, ty0, ty1)
  ELSE handle_same([taken EXCEPT !.state = save], loc0, loc1, ty0, ty1,
                   isect)

\* sameJmpImpl's propagate of the jump edge: refined is the env after the
\* handler of the outcome that takes the jump
sameJmpTaken(target, refined) ==
  IF refined.aborted THEN refined
  ELSE propagate(refined, target, refined.state)

\* sameJmpImpl's reasons to analyse the comparison and the jump one by one
sameJmpBails(env, NSame) ==
  LET loc0 == topStkEquiv(env, 0)
      loc1 == topStkEquiv(env, 1)
      ty0 == topT(env, 0)
      ty1 == topT(env, 1)
  IN \/ resolveSame(env, NSame).first # TBool
     \/ loc0 = NoLocalId /\ loc1 = NoLocalId
     \/ HasTv(ty0) /\ HasTv(ty1)
     \/ loc0 = NoLocalId /\ ~HasTv(ty0) /\ subtypeOf(ty1, ty0)
     \/ loc1 = NoLocalId /\ ~HasTv(ty1) /\ subtypeOf(ty0, ty1)

\* bail is the env after impl(same, jmp)
sameJmpImpl(env, same, jmp, bail) ==
  LET NSame == same.op = "NSame"
      loc0 == topStkEquiv(env, 0)
      loc1 == topStkEquiv(env, 1)
      ty0 == topT(env, 0)
      ty1 == topT(env, 1)
      isect == intersection_of(loosen_dvarrayness(ty0),
                               loosen_dvarrayness(ty1))
      e0 == discard(env, 2)
      sameIsJmpTarget == (~NSame) = (jmp.op = "JmpNZ")
  IN IF sameJmpBails(env, NSame) THEN bail
     ELSE sameJmpRest(
            sameJmpTaken(jmp.a1,
                         IF sameIsJmpTarget
                         THEN handle_same(e0, loc0, loc1, ty0, ty1, isect)
                         ELSE handle_differ(e0, loc0, loc1, ty0, ty1)),
            e0.state, sameIsJmpTarget, loc0, loc1, ty0, ty1, isect)

\* ---------------------------------------------------------- interpStep
GroupHeads == {"InstanceOfD", "IsTypeL", "IsUninit", "IsTypeC",
               "StaticLocCheck", "Same", "NSame"}
CondJmps == {"JmpZ", "JmpNZ"}

\* the opcode at it[k], or Nop when it + k is at or past stop
opAt(bcs, i, k) ==
  IF \A j \in 1..k : i + j <= Len(bcs) THEN bcs[i + k].op ELSE "Nop"

\* a lookahead that knows no pattern with an interposed Not
groupLen_noNot(bcs, i) ==
  IF bcs[i].op \in GroupHeads /\ opAt(bcs, i, 1) \in CondJmps THEN 2
  ELSE IF bcs[i].op = "MemoGet" /\ opAt(bcs, i, 1) = "IsUninit"
          /\ opAt(bcs, i, 2) \in CondJmps
  THEN 3
  ELSE 0

\* the number of instructions interpStep analyses as a group at position
\* i; 0 when it dispatches the single instruction
groupLen(bcs, i) ==
  LET o1 == bcs[i].op
      o2 == opAt(bcs, i, 1)
      o3 == opAt(bcs, i, 2)
  IN IF o1 \in GroupHeads
     THEN IF o2 = "Not"
          THEN (IF o3 \in CondJmps THEN 3 ELSE 0)
          ELSE (IF o2 \in CondJmps THEN 2 ELSE 0)
     ELSE IF o1 = "MemoGet"
     THEN (IF o2 = "IsUninit" /\ o3 \in CondJmps THEN 3 ELSE 0)
     ELSE 0

\* the jump a group analyses its test with: inverted when a Not stands
\* between test and jump
groupJmp(bcs, i, n) ==
  IF n = 3 /\ bcs[i + 1].op = "Not" THEN invertJmp(bcs[i + 2])
  ELSE bcs[i + n - 1]

\* what a group hands to impl: MemoGet alone; a test of a stack value of no
\* known location as the group is written; else the test and the jump
groupImplSeq(env, bcs, i, n, jmp) ==
  IF bcs[i].op = "MemoGet" THEN <<bcs[i]>>
  ELSE IF bcs[i].op = "IsTypeC" /\ topStkEquiv(env, 0) = NoLocalId
  THEN SubSeq(bcs, i, i + n - 1)
  ELSE <<bcs[i], jmp>>

\* the env a group hands to impl
groupImplEnv(env, head) ==
  IF head.op = "StaticLocCheck" THEN staticLocHelper(env, head.a1).env
  ELSE env

\* the overloads of group, by the opcode of the test; viaImpl is the env
\* after the overload's call of impl
groupOverload(env, head, jmp, viaImpl) ==
  CASE head.op = "IsUninit" -> group_IsUninit(env, jmp)
    [] head.op = "MemoGet" -> group_MemoGet(viaImpl, jmp)
    [] head.op = "IsTypeL" -> group_IsTypeL(env, head, jmp, viaImpl)
    [] head.op = "IsTypeC" -> group_IsTypeC(env, head, jmp, viaImpl)
    [] head.op = "InstanceOfD" -> instanceOfJmpImpl(env, head, jmp, viaImpl)
    [] head.op = "StaticLocCheck" ->
         staticLocCheckJmpImpl(env, head, jmp, viaImpl)
    [] head.op \in {"Same", "NSame"} -> sameJmpImpl(env, head, jmp, viaImpl)

\* a group that analyses the test with the jump as written although a
\* Not stands between them
group_keepsJmp(env, bcs, i, n) ==
  groupOverload(env, bcs[i], bcs[i + n - 1],
                impl(groupImplEnv(env, bcs[i]),
                     groupImplSeq(env, bcs, i, n, bcs[i + n - 1])))

\* interp_step::group for the instructions at i .. i + n - 1
group(env, bcs, i, n) ==
  groupOverload(env, bcs[i], groupJmp(bcs, i, n),
                impl(groupImplEnv(env, bcs[i]),
                     groupImplSeq(env, bcs, i, n, groupJmp(bcs, i, n))))

\* an interpStep whose groups leave the iterator where it was
interpStep_groupStays(env, bcs, i) ==
  LET n == groupLen(bcs, i)
  IN IF n > 0 THEN [env |-> group(env, bcs, i, n), iter |-> i]
     ELSE [env |-> dispatch(env, bcs[i]), iter |-> i + 1]

interpStep(env, bcs, i) ==
  LET n == groupLen(bcs, i)
  IN IF n > 0 THEN [env |-> group(env, bcs, i, n), iter |-> i + n]
     ELSE [env |-> dispatch(env, bcs[i]), iter |-> i + 1]

\* ------------------------------------------------------------ interpOps
without_stacks(st) == [st EXCEPT !.stack = <<>>, !.fpiStack = <<>>]

\* State{}: a default-constructed state
DefaultState ==
  [stack |-> <<>>, locals |-> <<>>, equivLocals |-> <<>>,
   fpiStack |-> <<>>, iters |-> <<>>, unreachable |-> FALSE]

\* a fix_const_outputs that finds no literal
fix_const_outputs_never(stack, numPushed) == FALSE

\* fix_const_outputs: every value pushed is a literal (and the slots are
\* rewritten to the literal's type)
fix_const_outputs(stack, numPushed) == AllScalarTop(stack, numPushed)
fix_const_stack(stack, numPushed) ==
  [k \in 1..Len(stack) |->
     IF k > Len(stack) - numPushed
     THEN StkElem(from_cell(tv(stack[k].type)), stack[k].equiv)
     ELSE stack[k]]

\* the upgrade without its first half: wasPEI is left as the handler set it
constprop_upgrade_keepsPEI(flags) == [flags EXCEPT !.effectFree = TRUE]

\* "nothrow (due to constprop)", "effect_free (due to constprop)"
constprop_upgrade(flags) ==
  [flags EXCEPT !.wasPEI = FALSE, !.effectFree = TRUE]

\* factored propagation that does not look at wasPEI
propagate_factored_always(log, wasPEI, exits, stateBefore) ==
  log \o [k \in 1..Len(exits) |->
            [origin |-> "factored", target |-> exits[k],
             state |-> stateBefore]]

\* the calls of propagate for a potentially-throwing instruction
propagate_factored(log, wasPEI, exits, stateBefore) ==
  IF wasPEI
  THEN log \o [k \in 1..Len(exits) |->
                 [origin |-> "factored", target |-> exits[k],
                  state |-> stateBefore]]
  ELSE log

\* interpOps after interpStep returned r: the literal-output upgrade and
\* the propagation to the factored exits (not reached when an assertion
\* ended the process inside the handler)
interpOps_finish(r, numPushed, stateBefore) ==
  LET fix == options.ConstantProp /\ r.env.flags.canConstProp
             /\ fix_const_outputs(r.env.state.stack, numPushed)
      flags2 == IF fix THEN constprop_upgrade(r.env.flags) ELSE r.env.flags
  IN [env |-> [r.env EXCEPT
                 !.flags = flags2,
                 !.state.stack = IF fix THEN fix_const_stack(@, numPushed)
                                 ELSE @,
                 !.log = IF r.env.aborted THEN @
                         ELSE propagate_factored(@, flags2.wasPEI,
                                                 factoredExits,
                                                 stateBefore)],
      iter |-> r.iter,
      handlerFlags |-> r.env.flags,
      numPushed |-> numPushed,
      stateBefore |-> stateBefore]

interpOps(st, col, log, bcs, i) ==
  interpOps_finish(
    interpStep([state |-> st, flags |-> DefaultFlags, log |-> log,
                unfoldable |-> col.unfoldable, cnsMap |-> col.cnsMap,
                readsUntrackedConstants |-> col.readsUntrackedConstants,
                aborted |-> FALSE], bcs, i),
    numPush(bcs[i]),
    IF factoredExits = <<>> THEN DefaultState ELSE without_stacks(st))

\* ------------------------------------------------------------------ run
NoLast ==
  [valid |-> FALSE, first |-> 0, consumed |-> 0, before |-> <<>>,
   stateBefore |-> <<>>, numPushed |-> 0, handlerFlags |-> DefaultFlags,
   flags |-> DefaultFlags, logBefore |-> 0, wasEffectFree |-> FALSE,
   bailed |-> FALSE]

\* exit checks that stop on any recorded jump destination, the fallthrough
\* included
runExit_anyJump(bailed, st, flags, nextIter) ==
  IF bailed THEN "Bailed"
  ELSE IF st.unreachable THEN "Unreachable"
  ELSE IF flags.jmpDest # NoBlockId THEN "BranchTaken"
  ELSE IF flags.returned # <<>>
  THEN (IF nextIter = Len(hhbcs) + 1 /\ fallthrough = NoBlockId
        THEN "Returned" ELSE "Aborted")
  ELSE "Scanning"

\* how run leaves its loop after one interpOps, in the order of its checks
runExit(bailed, st, flags, nextIter) ==
  IF bailed THEN "Bailed"
  ELSE IF st.unreachable THEN "Unreachable"
  ELSE IF flags.jmpDest # NoBlockId /\ flags.jmpDest # fallthrough
  THEN "BranchTaken"
  ELSE IF flags.returned # <<>>
  THEN (IF nextIter = Len(hhbcs) + 1 /\ fallthrough = NoBlockId
        THEN "Returned" ELSE "Aborted")
  ELSE "Scanning"

\* run's checks on what interpOps returned (r), in their order
runChecks(r) ==
  LET flags == r.env.flags
      bailed == collect.effectFree /\ ~flags.effectFree
                /\ options.EffectFreeOnly
      out == IF r.env.aborted THEN "Aborted"
             ELSE runExit(bailed, r.env.state, flags, r.iter)
  IN /\ state' = r.env.state
     /\ iter' = r.iter
     /\ propagated' = r.env.log
     /\ collect' = [effectFree |-> collect.effectFree /\ flags.effectFree,
                    unfoldable |-> r.env.unfoldable,
                    cnsMap |-> r.env.cnsMap,
                    readsUntrackedConstants |->
                      r.env.readsUntrackedConstants]
     /\ outcome' = out
     /\ returned' = IF out = "Returned" THEN flags.returned ELSE returned
     /\ last' = [valid |-> TRUE, first |-> iter,
                 consumed |-> r.iter - iter, before |-> state,
                 stateBefore |-> r.stateBefore,
                 numPushed |-> r.numPushed,
                 handlerFlags |-> r.handlerFlags, flags |-> flags,
                 logBefore |-> Len(propagated),
                 wasEffectFree |-> collect.effectFree,
                 bailed |-> bailed]

\* one iteration of run's loop
runIteration ==
  /\ outcome = "Scanning"
  /\ iter <= Len(hhbcs)
  /\ runChecks(interpOps(state, collect, propagated, hhbcs, iter))
  /\ UNCHANGED <<hhbcs, fallthrough, factoredExits, options, entry, implRun>>

\* the loop body when interpStep dispatches a single instruction
StepSingle ==
  /\ iter <= Len(hhbcs)
  /\ groupLen(hhbcs, iter) = 0
  /\ runIteration

\* the loop body when interpStep analyses a fused group
StepGroup ==
  /\ iter <= Len(hhbcs)
  /\ groupLen(hhbcs, iter) > 0
  /\ runIteration

\* a block end that propagates whether or not there is a fallthrough
BlockEnd_unconditional ==
  /\ outcome = "Scanning"
  /\ iter = Len(hhbcs) + 1
  /\ propagated' = Append(propagated, [origin |-> "fallthrough",
                                       target |-> fallthrough,
                                       state |-> state])
  /\ outcome' = "BlockEnd"
  /\ UNCHANGED <<hhbcs, fallthrough, factoredExits, options, state, collect,
                 iter, returned, entry, last, implRun>>

\* the loop ran to the end of the block
BlockEnd ==
  /\ outcome = "Scanning"
  /\ iter = Len(hhbcs) + 1
  /\ propagated' =
       IF fallthrough # NoBlockId
       THEN Append(propagated, [origin |-> "fallthrough",
                                target |-> fallthrough, state |-> state])
       ELSE propagated
  /\ outcome' = "BlockEnd"
  /\ UNCHANGED <<hhbcs, fallthrough, factoredExits, options, state, collect,
                 iter, returned, entry, last, implRun>>

Next == StepSingle \/ StepGroup \/ BlockEnd

\* --------------------------------------------------------- initial states
\* declared stack and FPI effects, as the bytecode verifier checks them
fpiDelta(ins) ==
  CASE ins.op \in {"FPushFuncD", "FPushFunc", "FPushClsMethodD"} -> 1
    [] ins.op \in {"FCall", "FCallD", "FCallM", "FCallDM", "FCallArray",
                   "FCallUnpack", "FCallUnpackM", "FCallAwait"} -> -1
    [] OTHER -> 0

RECURSIVE declDepth(_, _, _)
declDepth(bcs, d0, n) ==
  IF n = 0 THEN d0
  ELSE declDepth(bcs, d0, n - 1) - numPop(bcs[n]) + numPush(bcs[n])

RECURSIVE declFpi(_, _, _)
declFpi(bcs, f0, n) ==
  IF n = 0 THEN f0 ELSE declFpi(bcs, f0, n - 1) + fpiDelta(bcs[n])

\* a block the verifier accepts: no stack or FPI underflow, a
\* control-flow-ending instruction only at the end, and RetC on a stack
\* holding just the returned value
WellFormedBlock(bcs, d0, f0, ft) ==
  /\ \A i \in 1..Len(bcs) :
       /\ numPop(bcs[i]) <= declDepth(bcs, d0, i - 1)
       /\ bcs[i].op = "IsUninit" => declDepth(bcs, d0, i - 1) >= 1
       /\ declFpi(bcs, f0, i) >= 0
       /\ TF(bcs[i].op) => i = Len(bcs) /\ ft = NoBlockId
       /\ bcs[i].op = "RetC" => declDepth(bcs, d0, i - 1) = 1

\* the block's successors are numbered 1 (the fallthrough, when there is
\* one) and 2; its factored exits 3 and 4
Instrs ==
  { Ins("Int", 1, 0), Ins0("Null"), Ins0("Print"), Ins0("PopC"),
    Ins0("Add"), Ins0("CastInt"), Ins0("Not"), Ins("CGetL", 1, 0),
    Ins("CUGetL", 1, 0), Ins0("IsUninit"), Ins("JmpZ", 2, 0),
    Ins("JmpNZ", 2, 0), Ins("JmpNZ", 1, 0),
    Ins0("RetC"), Ins0("Throw") }

BlocksOver(U) == UNION { [1..n -> U] : n \in 1..MaxBlockLen }

CfgShapes ==
  { [ft |-> NoBlockId, fx |-> <<>>],
    [ft |-> 1, fx |-> <<3>>],
    [ft |-> NoBlockId, fx |-> <<3, 4>>] }

\* the runtime options and index answers the comparison and type-test
\* handlers read: no array-compatibility notices, a memoized implementation
\* and a local static of unknown type
RuntimeDefaults ==
  [EvalHackArrCompatNotices |-> FALSE,
   EvalHackArrCompatDVCmpNotices |-> FALSE,
   memoImplRetTy |-> TInitCell,
   localStaticTy |-> TInitCell,
   HardConstProp |-> FALSE]

OptionSets ==
  { o @@ RuntimeDefaults :
      o \in { o \in [ConstantProp : BOOLEAN, StrengthReduce : BOOLEAN,
                     EffectFreeOnly : BOOLEAN, ConstantFoldBuiltins : {FALSE},
                     propagate_constants : BOOLEAN] :
               /\ o.propagate_constants => o.ConstantProp /\ o.StrengthReduce
               /\ o.EffectFreeOnly => ~o.propagate_constants } }

EntryState(t, stack) ==
  [stack |-> stack,
   locals |-> [l \in Locals |-> IF l = 1 THEN t ELSE TInitCell],
   equivLocals |-> [l \in Locals |-> NoLocalId],
   fpiStack |-> <<>>, iters |-> <<>>, unreachable |-> FALSE]

\* the states a block is entered with: local 1 unknown on an empty stack,
\* or local 1 a literal under one value of unknown type
EntryStates ==
  { EntryState(TCell, <<>>),
    EntryState(ival(1), <<StkElem(TCell, NoLocalId)>>) }

NoImpl ==
  [phase |-> "none", reduce |-> FALSE, pre |-> DefaultFlags,
   flags |-> DefaultFlags, cur |-> <<>>, sub |-> <<>>]

InitOver(U, Opts) ==
  /\ hhbcs \in BlocksOver(U)
  /\ \E c \in CfgShapes : fallthrough = c.ft /\ factoredExits = c.fx
  /\ options \in Opts
  /\ state \in EntryStates
  /\ WellFormedBlock(hhbcs, Len(state.stack), 0, fallthrough)
  /\ implRun = NoImpl
  /\ entry = state
  /\ collect \in { [NoCollected EXCEPT !.effectFree = e] :
                     e \in { e \in BOOLEAN : options.EffectFreeOnly => e } }
  /\ iter = 1
  /\ outcome = "Scanning"
  /\ returned = <<>>
  /\ propagated = <<>>
  /\ last = NoLast

Init == InitOver(Instrs, OptionSets)

Spec == Init /\ [][Next]_vars

\* ------------------------------------------------- properties of the driver
IsFactored(e) == e.origin = "factored"
IsFallthrough(e) == e.origin = "fallthrough"
IsEdge(e) == e.origin = "edge"

\* the calls of propagate made since the latest interpOps began
SinceLast == SubSeq(propagated, last.logBefore + 1, Len(propagated))

Stopped == outcome \notin {"Scanning", "BlockEnd"}

\* run's bail-out: the function was effect-free so far, the instruction
\* is not, and only effect-free analysis was asked for
LastBailed ==
  last.wasEffectFree /\ ~last.flags.effectFree /\ options.EffectFreeOnly

\* C1: the flags reported for every instruction or fused group the driver
\* processed, and the flags impl/reduce accumulated for a sequence, satisfy
\* effectFree => ~wasPEI, before and after the literal-output upgrade.
C1_EffectFreeImpliesNoThrow ==
  /\ last.valid =>
       /\ last.flags.effectFree => ~last.flags.wasPEI
       /\ last.handlerFlags.effectFree => ~last.handlerFlags.wasPEI
  /\ implRun.phase \in {"loop", "finish", "done"} =>
       (implRun.flags.effectFree => ~implRun.flags.wasPEI)

\* an instruction the handler reported as throwing, made effect-free by
\* the literal-output upgrade
C1_Witness ==
  /\ last.valid
  /\ last.handlerFlags.wasPEI
  /\ last.flags.effectFree
  /\ ~last.flags.wasPEI

\* C3: after each instruction or group, the factored exits receive, once
\* each and in order, the stack-less state from before it when the final
\* flags say it may throw, and nothing when they say it cannot.
C3_FactoredPropagation ==
  last.valid =>
    SelectSeq(SinceLast, IsFactored) =
      IF last.flags.wasPEI
      THEN [k \in 1..Len(factoredExits) |->
              [origin |-> "factored", target |-> factoredExits[k],
               state |-> [last.before EXCEPT !.stack = <<>>,
                                             !.fpiStack = <<>>]]]
      ELSE <<>>

\* a throwing instruction run on a non-empty stack in a block with two
\* factored exits
C3_Witness ==
  /\ last.valid
  /\ last.flags.wasPEI
  /\ Len(factoredExits) = 2
  /\ last.before.stack # <<>>
  /\ Len(SelectSeq(SinceLast, IsFactored)) = 2

\* C4 as stated: after each instruction run stops on an unreachable state
\* without a returned type, else stops on a jump away from the
\* fallthrough, else stops on a return and reports its type, and
\* otherwise continues.
C4_ExitOrderAsStated ==
  last.valid =>
    IF state.unreachable THEN Stopped /\ returned = <<>>
    ELSE IF last.flags.jmpDest # NoBlockId /\ last.flags.jmpDest # fallthrough
    THEN Stopped
    ELSE IF last.flags.returned # <<>>
    THEN Stopped /\ returned = last.flags.returned
    ELSE ~Stopped

\* C4, amended: the same order, after the bail-out of effect-free-only
\* analysis, which is checked first and stops the scan without a returned
\* type.
C4_ExitOrder ==
  last.valid =>
    IF LastBailed THEN outcome = "Bailed" /\ returned = <<>>
    ELSE IF state.unreachable
    THEN outcome = "Unreachable" /\ returned = <<>>
    ELSE IF last.flags.jmpDest # NoBlockId /\ last.flags.jmpDest # fallthrough
    THEN outcome = "BranchTaken" /\ returned = <<>>
    ELSE IF last.flags.returned # <<>>
    THEN outcome = "Returned" /\ returned = last.flags.returned
    ELSE ~Stopped /\ returned = <<>>

\* a jump taken to the block's own fallthrough, after which the scan goes
\* on
C4_Witness ==
  /\ last.valid
  /\ fallthrough # NoBlockId
  /\ last.flags.jmpDest = fallthrough
  /\ \E k \in 1..Len(SinceLast) :
       IsEdge(SinceLast[k]) /\ SinceLast[k].target = fallthrough
  /\ outcome = "Scanning"
  /\ iter <= Len(hhbcs)

\* C5: the block-end propagation to the fallthrough happens exactly once,
\* with the final state, when the scan reached the end of the block and
\* the block has a fallthrough, and never otherwise.
C5_FallthroughPropagation ==
  /\ SelectSeq(propagated, IsFallthrough) =
       IF outcome = "BlockEnd" /\ fallthrough # NoBlockId
       THEN <<[origin |-> "fallthrough", target |-> fallthrough,
               state |-> state]>>
       ELSE <<>>
  /\ outcome = "BlockEnd" => iter = Len(hhbcs) + 1 /\ ~state.unreachable

\* a block of several instructions scanned to its end and propagated
C5_Witness ==
  /\ outcome = "BlockEnd"
  /\ fallthrough # NoBlockId
  /\ Len(hhbcs) >= 2
  /\ Len(SelectSeq(propagated, IsFallthrough)) = 1

\* each driver step consumes one to three instructions of the block and
\* moves the iterator forward; while run has not ended the iterator is at
\* an instruction (another step is due) or at the end (the block's end is
\* due)
StepWithinBlock ==
  /\ last.valid =>
       /\ last.consumed \in 1..3
       /\ last.first + last.consumed <= Len(hhbcs) + 1
       /\ iter = last.first + last.consumed
  /\ outcome = "Scanning" => iter \in 1..(Len(hhbcs) + 1)

C8_UpgradeAsStated ==
  (/\ last.valid
   /\ last.consumed = 1
   /\ options.ConstantProp
   /\ last.numPushed >= 1
   /\ AllScalarTop(state.stack, last.numPushed))
  => last.flags.effectFree /\ ~last.flags.wasPEI

\* C8, amended: the upgrade to effect-free and no-throw happens exactly
\* when constant propagation is on, the handler marked the instruction
\* const-prop eligible and every value it pushed is a literal; otherwise
\* the handler's flags are reported as they are.
C8_Upgrade ==
  last.valid =>
    IF /\ options.ConstantProp
       /\ last.handlerFlags.canConstProp
       /\ AllScalarTop(state.stack, last.numPushed)
    THEN last.flags = [last.handlerFlags EXCEPT !.wasPEI = FALSE,
                                                !.effectFree = TRUE]
    ELSE last.flags = last.handlerFlags

\* an instruction its handler reported as throwing, upgraded because it
\* pushed a literal
C8_Witness ==
  /\ last.valid
  /\ options.ConstantProp
  /\ last.numPushed >= 1
  /\ last.handlerFlags.wasPEI
  /\ last.handlerFlags.canConstProp
  /\ last.flags.effectFree
  /\ ~last.flags.wasPEI
  /\ last.consumed = 1

\* ------------------------------------------------- blocks that make calls
CallInstrs ==
  { Ins0("NullUninit"), Ins("Int", 1, 0), Ins0("PopC"), Ins0("IsUninit"),
    Ins("JmpNZ", 2, 0),
    Ins("FCall", 0, 0), Ins("FCall", 1, 0),
    InsS("FCallD", 0, 0, s_empty, "f_int"),
    Ins("FCallM", 0, 2), Ins("FCallM", 1, 2),
    Ins("FCallArray", 0, 0), Ins("FCallUnpackM", 1, 2) }
  \cup { InsS("FPushFuncD", 0, 0, s_empty, f) :
           f \in {"f_fold", "f_int", "f_never", "f_pair"} }

CallOptionSets ==
  { o @@ RuntimeDefaults :
      o \in [ConstantProp : BOOLEAN, StrengthReduce : BOOLEAN,
             EffectFreeOnly : {FALSE}, ConstantFoldBuiltins : BOOLEAN,
             propagate_constants : {FALSE}] }

InitCall == InitOver(CallInstrs, CallOptionSets)

SpecCall == InitCall /\ [][Next]_vars

\* C2: at every point of a block the operand-stack depth is the entry
\* depth plus the declared pushes minus the declared pops of the
\* instructions run so far, whichever branch each handler took.
C2_DeclaredStackDepth ==
  Len(state.stack) = declDepth(hhbcs, Len(entry.stack), iter - 1)

\* ------------------------------------- one call of impl_vec, step by step
\* implRun holds the call's locals: reduce (the argument, then the local
\* it becomes), flags (env.flags), cur (currentReduction); pre and sub
\* remember the flags the calling handler had set and the flags obtained
\* for each sub-instruction executed so far.
ImplInstrs ==
  { Ins0("Nop"), Ins("Int", 1, 0), Ins0("Print"), Ins0("PopC"), Ins0("Add"),
    Ins0("CastInt"), Ins0("Not"), Ins("CGetL", 1, 0), Ins0("Throw"),
    Ins0("Fatal") }

ImplSeqs == UNION { [1..n -> ImplInstrs] : n \in 0..MaxImplLen }

\* no sub-instruction finds the stack too short
ImplRunnable(bcs, d0) ==
  \A i \in 1..Len(bcs) : numPop(bcs[i]) <= declDepth(bcs, d0, i - 1)

\* the flags a handler may have set before it calls impl or reduce
HandlerFlags ==
  { DefaultFlags,
    [DefaultFlags EXCEPT !.wasPEI = FALSE],
    [DefaultFlags EXCEPT !.wasPEI = FALSE, !.effectFree = TRUE],
    [DefaultFlags EXCEPT !.canConstProp = TRUE] }

ImplOptionSets ==
  { o \in OptionSets :
      ~o.EffectFreeOnly /\ o.ConstantProp = o.StrengthReduce }

InitImpl ==
  /\ hhbcs \in ImplSeqs
  /\ fallthrough = NoBlockId
  /\ factoredExits = <<>>
  /\ options \in ImplOptionSets
  /\ state \in EntryStates
  /\ ImplRunnable(hhbcs, Len(state.stack))
  /\ entry = state
  /\ collect = NoCollected
  /\ iter = 1
  /\ outcome = "Scanning"
  /\ returned = <<>>
  /\ propagated = <<>>
  /\ last = NoLast
  /\ implRun \in { [phase |-> "call", reduce |-> r, pre |-> f, flags |-> f,
                     cur |-> <<>>, sub |-> <<>>] :
                     r \in BOOLEAN, f \in HandlerFlags }

ImplEnv ==
  [state |-> state, flags |-> implRun.flags, log |-> propagated,
   unfoldable |-> collect.unfoldable, cnsMap |-> collect.cnsMap,
   readsUntrackedConstants |-> collect.readsUntrackedConstants,
   aborted |-> FALSE]

\* impl_vec up to its loop
ImplEnter ==
  /\ implRun.phase = "call"
  /\ implRun' = [implRun EXCEPT !.phase = "loop",
                                !.reduce = @ /\ options.StrengthReduce,
                                !.flags = impl_reset(@)]
  /\ UNCHANGED <<hhbcs, fallthrough, factoredExits, options, state, collect,
                 iter, outcome, returned, propagated, entry, last>>

\* what one iteration leaves: s is the sub-instruction's result
implAfterSub(s) ==
  /\ state' = s.env.state
  /\ propagated' = s.env.log
  /\ collect' = [collect EXCEPT !.unfoldable = s.env.unfoldable,
                                !.cnsMap = s.env.cnsMap,
                                !.readsUntrackedConstants =
                                  s.env.readsUntrackedConstants]
  /\ iter' = iter + 1
  /\ implRun' = [implRun EXCEPT
                   !.flags = impl_iter_merge(s, implRun.flags).env.flags,
                   !.cur = s.cur,
                   !.sub = Append(@, s.env.flags),
                   !.phase = IF s.env.state.unreachable THEN "finish"
                             ELSE "loop"]

\* one iteration of impl_vec's loop
ImplSubInstr ==
  /\ implRun.phase = "loop"
  /\ iter <= Len(hhbcs)
  /\ implAfterSub(impl_sub(ImplEnv, implRun.reduce, hhbcs[iter], implRun.cur))
  /\ UNCHANGED <<hhbcs, fallthrough, factoredExits, options, outcome,
                 returned, entry, last>>

\* impl_vec after its loop
ImplFinish ==
  /\ \/ implRun.phase = "finish"
     \/ implRun.phase = "loop" /\ iter > Len(hhbcs)
  /\ implRun' = [implRun EXCEPT
                   !.flags = impl_finish(ImplEnv, implRun.reduce,
                                         implRun.cur).flags,
                   !.phase = "done"]
  /\ UNCHANGED <<hhbcs, fallthrough, factoredExits, options, state, collect,
                 iter, outcome, returned, propagated, entry, last>>

NextImpl == ImplEnter \/ ImplSubInstr \/ ImplFinish

SpecImpl == InitImpl /\ [][NextImpl]_vars

ImplRunning == implRun.phase \in {"loop", "finish", "done"}

\* C7: the flags impl/reduce reports are wasPEI = OR, canConstProp = AND
\* and effectFree = AND of the flags obtained for the sub-instructions
\* executed, whatever flags the calling handler had set before.
C7_FlagAggregation ==
  ImplRunning =>
    /\ implRun.flags.wasPEI =
         (\E k \in 1..Len(implRun.sub) : implRun.sub[k].wasPEI)
    /\ implRun.flags.canConstProp =
         (\A k \in 1..Len(implRun.sub) : implRun.sub[k].canConstProp)
    /\ implRun.flags.effectFree =
         (\A k \in 1..Len(implRun.sub) : implRun.sub[k].effectFree)

\* a finished call of three sub-instructions, the first throwing and the
\* last not, requested by a handler that had declared itself effect-free
C7_Witness ==
  /\ implRun.phase = "done"
  /\ Len(implRun.sub) = 3
  /\ implRun.pre.effectFree
  /\ implRun.sub[1].wasPEI
  /\ ~implRun.sub[3].wasPEI
  /\ implRun.flags.wasPEI

\* sub-instruction k ended control: it is a control-ending form, or its
\* own replacement sequence ends in one
EndsControl(k) ==
  \/ TF(hhbcs[k].op)
  \/ /\ implRun.sub[k].hasReduced
     /\ implRun.sub[k].strengthReduced # <<>>
     /\ TF(implRun.sub[k].strengthReduced[
             Len(implRun.sub[k].strengthReduced)].op)

GroupOps == GroupHeads \cup {"MemoGet", "Not", "JmpZ", "JmpNZ", "Nop"}

InitGroup ==
  /\ hhbcs \in BlocksOver({ Ins0(o) : o \in GroupOps })
  /\ fallthrough = NoBlockId
  /\ factoredExits = <<>>
  /\ options \in { o \in OptionSets : ~o.ConstantProp /\ ~o.StrengthReduce
                                      /\ ~o.EffectFreeOnly }
  /\ state = EntryState(TCell, <<>>)
  /\ entry = state
  /\ collect = NoCollected
  /\ iter = 1
  /\ outcome = "Scanning"
  /\ returned = <<>>
  /\ propagated = <<>>
  /\ last = NoLast
  /\ implRun = NoImpl

\* the iterator after interpStep took n instructions at once (n = 0: the
\* single instruction was dispatched)
lookaheadTakes(n) ==
  /\ iter' = IF n > 0 THEN iter + n ELSE iter + 1
  /\ last' = [NoLast EXCEPT !.valid = TRUE, !.first = iter,
                            !.consumed = IF n > 0 THEN n ELSE 1]
  /\ UNCHANGED <<hhbcs, fallthrough, factoredExits, options, state, collect,
                 outcome, returned, propagated, entry, implRun>>

LookaheadSingle ==
  /\ iter <= Len(hhbcs)
  /\ groupLen(hhbcs, iter) = 0
  /\ lookaheadTakes(groupLen(hhbcs, iter))

LookaheadGroup ==
  /\ iter <= Len(hhbcs)
  /\ groupLen(hhbcs, iter) > 0
  /\ lookaheadTakes(groupLen(hhbcs, iter))

NextGroup == LookaheadSingle \/ LookaheadGroup

SpecGroup == InitGroup /\ [][NextGroup]_vars

IsFusableTest(o) ==
  o \in {"InstanceOfD", "IsTypeL", "IsTypeC", "IsUninit", "StaticLocCheck",
         "Same", "NSame"}

\* the instruction k places after the one the latest step began at is in
\* the block and has opcode o
LastSees(k, o) ==
  last.first + k <= Len(hhbcs) /\ hhbcs[last.first + k].op = o

\* C10: a step takes three instructions exactly for a fusable test, Not
\* and a conditional jump, or MemoGet, IsUninit and a conditional jump;
\* two exactly for a fusable test and a conditional jump; one in every
\* other case, a pattern cut short by the end of the block included.
C10_Grouping ==
  last.valid =>
    LET test == IsFusableTest(hhbcs[last.first].op)
        three == /\ LastSees(2, "JmpZ") \/ LastSees(2, "JmpNZ")
                 /\ \/ test /\ LastSees(1, "Not")
                    \/ LastSees(0, "MemoGet") /\ LastSees(1, "IsUninit")
        two == test /\ (LastSees(1, "JmpZ") \/ LastSees(1, "JmpNZ"))
    IN /\ last.consumed = IF three THEN 3 ELSE IF two THEN 2 ELSE 1
       /\ iter = last.first + last.consumed

\* MemoGet, IsUninit and a conditional jump taken as one group
C10_Witness ==
  /\ last.valid
  /\ LastSees(0, "MemoGet")
  /\ last.consumed = 3
  /\ iter = last.first + 3

\* ------------------------------------------- blocks of fused type tests
\* IsTypeL/IsTypeC test for null or an integer; class C has instances
BranchInstrs ==
  { Ins("CGetL", 1, 0), Ins0("Dup"), Ins0("PopC"), Ins0("Not"),
    Ins("JmpZ", 2, 0), Ins("JmpNZ", 2, 0), Ins("JmpNZ", 1, 0),
    Ins0("IsUninit"), Ins0("MemoGet"),
    InsS("IsTypeL", 1, 0, "Null", s_empty),
    InsS("IsTypeL", 1, 0, "Int", s_empty),
    InsS("IsTypeC", 0, 0, "Null", s_empty),
    InsS("IsTypeC", 0, 0, "Int", s_empty),
    InsS("InstanceOfD", 0, 0, "C", s_empty),
    Ins("StaticLocCheck", 2, 0), Ins0("Same"), Ins0("NSame") }

TOptInt == TInt \cup TInitNull
TOptObjC == subObj("C") \cup TInitNull

\* locals 1 and 2 of types t1 and t2, equivalent or not, under a stack
SameEntry(t1, t2, equiv, stack) ==
  [stack |-> stack,
   locals |-> [l \in Locals |-> IF l = 1 THEN t1 ELSE t2],
   equivLocals |-> [l \in Locals |->
                      IF ~equiv \/ l > 2 THEN NoLocalId
                      ELSE IF l = 1 THEN 2 ELSE 1],
   fpiStack |-> <<>>, iters |-> <<>>, unreachable |-> FALSE]

\* the states a block of tests is entered with: local 1 of a type the
\* tests split, read onto the stack (and duplicated) or not; two locals
\* read onto the stack; a local read under a null
BranchEntryStates ==
  { EntryState(TCell, <<>>),
    EntryState(TCell, <<StkElem(TCell, NoLocalId)>>),
    EntryState(TInitCell, <<StkElem(TInitCell, 1),
                            StkElem(TInitCell, StackDupId)>>),
    EntryState(TOptInt, <<StkElem(TOptInt, 1)>>),
    EntryState(TOptObjC, <<StkElem(TOptObjC, 1)>>),
    EntryState(TObj, <<StkElem(TObj, 1)>>),
    SameEntry(TInt, TInt, FALSE, <<StkElem(TInt, 1), StkElem(TInt, 2)>>),
    SameEntry(TOptInt, TInitCell, FALSE,
              <<StkElem(TOptInt, 1), StkElem(TInitNull, NoLocalId)>>) }

BranchOptionSets ==
  { [o EXCEPT !.memoImplRetTy = m, !.localStaticTy = t] :
      o \in { o \in OptionSets : ~o.EffectFreeOnly /\ ~o.StrengthReduce
                                  /\ ~o.ConstantProp },
      m \in {TInitCell, TInt}, t \in {TInitCell, TBottom} }

InitBranch ==
  /\ hhbcs \in BlocksOver(BranchInstrs)
  /\ \E c \in {[ft |-> NoBlockId, fx |-> <<>>], [ft |-> 1, fx |-> <<3>>]} :
       fallthrough = c.ft /\ factoredExits = c.fx
  /\ options \in BranchOptionSets
  /\ state \in BranchEntryStates
  /\ WellFormedBlock(hhbcs, Len(state.stack), 0, fallthrough)
  /\ implRun = NoImpl
  /\ entry = state
  /\ collect = NoCollected
  /\ iter = 1
  /\ outcome = "Scanning"
  /\ returned = <<>>
  /\ propagated = <<>>
  /\ last = NoLast

SpecBranch == InitBranch /\ [][Next]_vars

\* the latest step analysed the three instructions test, Not, jump
LastWasNotGroup ==
  /\ last.valid /\ last.consumed = 3
  /\ hhbcs[last.first + 1].op = "Not"
  /\ outcome # "BlockEnd"

\* what interpOps makes of the latest group's test followed at once by
\* the inverted jump, from the state the group was entered with
TwoFormOfLast ==
  interpOps(last.before,
            [collect EXCEPT !.effectFree = last.wasEffectFree],
            SubSeq(propagated, 1, last.logBefore),
            <<hhbcs[last.first], invertJmp(hhbcs[last.first + 2])>>, 1)

\* C11: a group test; Not; jump leaves the same continuing state, the same
\* states propagated to the same targets and the same recorded jump
\* destination as the test followed directly by the inverted jump.
C11_NotSwapsEdges ==
  LastWasNotGroup =>
    /\ TwoFormOfLast.env.state = state
    /\ TwoFormOfLast.env.log = propagated
    /\ TwoFormOfLast.env.flags.jmpDest = last.flags.jmpDest
    /\ TwoFormOfLast.env.aborted = (outcome = "Aborted" /\ last.flags.returned = <<>>)

\* a type test on a stack value of no known location, with Not, that sent
\* a state to the jump target and continues
C11_Witness ==
  /\ LastWasNotGroup
  /\ hhbcs[last.first].op = "IsTypeC"
  /\ last.before.stack[Len(last.before.stack)].equiv = NoLocalId
  /\ Len(propagated) > last.logBefore
  /\ outcome = "Scanning"

\* a local's type was narrowed by a test; Not; jump group
C11_WitnessRefined ==
  /\ LastWasNotGroup
  /\ hhbcs[last.first].op \in {"IsTypeL", "InstanceOfD"}
  /\ state.locals # last.before.locals
  /\ Len(propagated) > last.logBefore

\* ---------------------------------------------- statically decided branches
\* the states the latest step propagated along jump edges
EdgesOfLast ==
  SelectSeq(SubSeq(propagated, last.logBefore + 1, Len(propagated)), IsEdge)

\* the latest step was a conditional jump on its own, or IsUninit fused
\* with a jump (a Not between them or not)
LastWasJmp ==
  /\ last.valid /\ outcome # "BlockEnd" /\ last.consumed = 1
  /\ hhbcs[last.first].op \in CondJmps
LastWasIsUninitGroup ==
  /\ last.valid /\ outcome # "BlockEnd" /\ last.consumed \in {2, 3}
  /\ hhbcs[last.first].op = "IsUninit"

\* the jump of the latest step as the test sees it, and the value tested
LastJmp ==
  IF last.consumed = 3 /\ hhbcs[last.first + 1].op = "Not"
  THEN invertJmp(hhbcs[last.first + 2])
  ELSE hhbcs[last.first + last.consumed - 1]
LastTested == last.before.stack[Len(last.before.stack)].type

\* the branch of the latest step is decided, and the decision takes the jump
LastDecided ==
  \/ LastWasJmp /\ emptiness(LastTested) # "Maybe"
  \/ /\ LastWasIsUninitGroup
     /\ subtypeOf(LastTested, TUninit) \/ ~couldBe(LastTested, TUninit)
LastDecidedTaken ==
  IF LastWasJmp
  THEN (emptiness(LastTested) = "NonEmpty") = (LastJmp.op = "JmpNZ")
  ELSE subtypeOf(LastTested, TUninit) = (LastJmp.op = "JmpNZ")

C12_WitnessNotTaken ==
  /\ LastWasJmp /\ LastDecided /\ ~LastDecidedTaken
  /\ outcome = "Scanning"

\* ------------------------------------------ undecided fused groups
\* the env the latest step began with
PreEnv ==
  [state |-> last.before, flags |-> DefaultFlags, log |-> <<>>,
   unfoldable |-> {}, cnsMap |-> NoCnsMap,
   readsUntrackedConstants |-> FALSE, aborted |-> FALSE]

\* the latest step was Same or NSame fused with a jump and did not fall
\* back to analysing them one by one
LastSameFused ==
  /\ last.valid /\ outcome # "BlockEnd" /\ last.consumed \in {2, 3}
  /\ hhbcs[last.first].op \in {"Same", "NSame"}
  /\ ~sameJmpBails(PreEnv, hhbcs[last.first].op = "NSame")
  /\ outcome # "Aborted"
SameTakesJmp == (hhbcs[last.first].op = "Same") = (LastJmp.op = "JmpNZ")

\* the two refinements, each applied to the state the group began with
\* less the two operands
LastIsect ==
  intersection_of(loosen_dvarrayness(topT(PreEnv, 0)),
                  loosen_dvarrayness(topT(PreEnv, 1)))
LastHandleSame ==
  handle_same(discard(PreEnv, 2), topStkEquiv(PreEnv, 0),
              topStkEquiv(PreEnv, 1), topT(PreEnv, 0), topT(PreEnv, 1),
              LastIsect).state
LastHandleDiffer ==
  handle_differ(discard(PreEnv, 2), topStkEquiv(PreEnv, 0),
                topStkEquiv(PreEnv, 1), topT(PreEnv, 0),
                topT(PreEnv, 1)).state

\* the latest step was IsUninit or MemoGet; IsUninit fused with a jump,
\* and the test is undecided
LastTypeTestFused ==
  /\ last.valid /\ outcome # "BlockEnd" /\ last.consumed \in {2, 3}
  /\ \/ /\ hhbcs[last.first].op = "IsUninit"
        /\ couldBe(LastTested, TUninit)
        /\ ~subtypeOf(LastTested, TUninit)
     \/ /\ hhbcs[last.first].op = "MemoGet"
        /\ memoizeImplRetType(PreEnv) # TBottom
\* the stack below the tested value, and the type a failed test leaves
LastBase ==
  IF hhbcs[last.first].op = "MemoGet" THEN last.before.stack
  ELSE SubSeq(last.before.stack, 1, Len(last.before.stack) - 1)
LastFailTy ==
  IF hhbcs[last.first].op = "MemoGet" THEN memoizeImplRetType(PreEnv)
  ELSE remove_uninit(LastTested)
\* the state the group began with, the tested value narrowed to t
LastWithTop(t) ==
  [last.before EXCEPT !.stack = Append(LastBase, StkElem(t, NoLocalId))]

\* C13: an undecided fused group gives the jump target the state the group
\* began with under the refinement of the outcome that takes the jump,
\* and continues with the state it began with under the opposite
\* refinement alone: equivalences merged or types narrowed for the jump
\* edge are not in the continuing state. No jump destination is recorded.
C13_EdgeRefinementsSeparate ==
  /\ LastSameFused =>
       /\ EdgesOfLast =
            <<[origin |-> "edge", target |-> LastJmp.a1,
               state |-> IF SameTakesJmp THEN LastHandleSame
                         ELSE LastHandleDiffer]>>
       /\ state = IF SameTakesJmp THEN LastHandleDiffer ELSE LastHandleSame
       /\ SameTakesJmp => state.equivLocals = last.before.equivLocals
       /\ last.flags.jmpDest = NoBlockId
  /\ LastTypeTestFused =>
       /\ EdgesOfLast =
            <<[origin |-> "edge", target |-> LastJmp.a1,
               state |-> LastWithTop(IF LastJmp.op = "JmpNZ" THEN TUninit
                                     ELSE LastFailTy)]>>
       /\ state = LastWithTop(IF LastJmp.op = "JmpNZ" THEN LastFailTy
                              ELSE TUninit)
       /\ last.flags.jmpDest = NoBlockId

\* a fused comparison of two locals whose jump is taken when they are the
\* same: the target sees them equivalent, the continuing state does not
C13_Witness ==
  /\ LastSameFused /\ SameTakesJmp
  /\ EdgesOfLast[1].state.equivLocals # last.before.equivLocals
  /\ state.equivLocals = last.before.equivLocals
  /\ outcome = "Scanning"

\* an undecided fused IsUninit whose two edges get different types
C13_WitnessTypeTest ==
  /\ LastTypeTestFused
  /\ hhbcs[last.first].op = "IsUninit"
  /\ EdgesOfLast[1].state # state

\* ------------------------------------------- the types on the two edges
TypeTestHeads == {"IsTypeL", "IsTypeC", "IsUninit", "MemoGet", "InstanceOfD"}

\* the latest step was a type test fused with a conditional jump
LastWasTypeGroup ==
  /\ last.valid /\ outcome \notin {"BlockEnd", "Aborted"}
  /\ last.consumed \in {2, 3}
  /\ hhbcs[last.first].op \in TypeTestHeads
LastHead == hhbcs[last.first]

\* the location of the tested value, its type before the group, and the
\* type tested for
LastLocation ==
  IF LastHead.op = "IsTypeL" THEN LastHead.a1
  ELSE IF LastHead.op \in {"IsTypeC", "InstanceOfD"}
  THEN topStkEquiv(PreEnv, 0)
  ELSE NoLocalId
LastOriginalTy ==
  CASE LastHead.op = "IsTypeL" -> locRaw(PreEnv, LastHead.a1)
    [] LastHead.op = "MemoGet" -> topT(in_MemoGet(PreEnv, LastHead), 0)
    [] LastHead.op = "InstanceOfD" /\ LastLocation # NoLocalId ->
         peekLocation(PreEnv, LastLocation, 1)
    [] OTHER -> LastTested
LastTestTy ==
  CASE LastHead.op \in {"IsTypeL", "IsTypeC"} -> type_of_istype(LastHead.s1)
    [] LastHead.op = "InstanceOfD" -> subObj(LastHead.s1)
    [] OTHER -> TUninit

\* the type a state gives to the tested value: the value is a local, the
\* stack top the test left or pushed, or the slot a popped duplicate was
\* taken from; a popped value of no known location keeps its type
TestedIn(st) ==
  IF LastHead.op \in {"IsUninit", "MemoGet"}
  THEN st.stack[Len(st.stack)].type
  ELSE IF LastLocation \in Locals THEN st.locals[LastLocation]
  ELSE IF LastLocation = StackDupId THEN st.stack[Len(st.stack)].type
  ELSE LastOriginalTy

\* the test is decided by the types; both edges got a state
LastTestDecided ==
  \/ subtypeOf(LastOriginalTy, LastTestTy)
  \/ ~couldBe(LastOriginalTy, LastTestTy)
LastBothEdges == Len(EdgesOfLast) = 1 /\ last.flags.jmpDest = NoBlockId
\* the types on the edge of the test's success and of its failure
LastSuccessTy ==
  IF LastJmp.op = "JmpNZ" THEN TestedIn(EdgesOfLast[1].state)
  ELSE TestedIn(state)
LastFailureTy ==
  IF LastJmp.op = "JmpNZ" THEN TestedIn(state)
  ELSE TestedIn(EdgesOfLast[1].state)

\* a decided test gives a state to one edge only, the one of its outcome
LastOneEdgeOnly ==
  IF subtypeOf(LastOriginalTy, LastTestTy) = (LastJmp.op = "JmpNZ")
  THEN Len(EdgesOfLast) = 1 /\ last.flags.jmpDest = LastJmp.a1
  ELSE EdgesOfLast = <<>> /\ last.flags.jmpDest = fallthrough

C14_WitnessMemoGet ==
  /\ LastWasTypeGroup /\ LastBothEdges
  /\ LastHead.op = "MemoGet"
  /\ LastFailureTy = TInt

\* a decided type test
C14_WitnessDecided ==
  /\ LastWasTypeGroup /\ LastTestDecided
  /\ LastHead.op \in {"IsTypeL", "IsTypeC", "InstanceOfD"}

\* ------------------------------------- blocks of identity comparisons
\* Double 0 pushes NaN, Double 1 an ordinary number
SameInstrs ==
  { Ins("CGetL", 1, 0), Ins("CGetL", 2, 0), Ins0("Dup"), Ins0("PopC"),
    Ins0("Not"), Ins("JmpZ", 2, 0), Ins("JmpNZ", 2, 0),
    Ins0("Same"), Ins0("NSame"), Ins0("Eq"), Ins0("Neq"),
    Ins("Double", 0, 0), Ins("Double", 1, 0), Ins0("Null"),
    InsS("IsTypeL", 1, 0, "Int", s_empty) }

\* the states a block of comparisons is entered with: locals read onto the
\* stack, a local read and duplicated, locals made equivalent by a SetL,
\* and containers of two kinds
SameEntryStates ==
  { SameEntry(TInitCell, TInitCell, FALSE, <<>>),
    SameEntry(TDbl, TInitCell, FALSE, <<StkElem(TDbl, 1)>>),
    SameEntry(TInt, TInt, FALSE, <<StkElem(TInt, 1), StkElem(TInt, 2)>>),
    SameEntry(TInt, TInt, TRUE, <<StkElem(TInt, 1)>>),
    SameEntry(TDbl, TDbl, TRUE, <<StkElem(TDbl, 1)>>),
    SameEntry(TOptInt, TInitCell, FALSE,
              <<StkElem(TOptInt, 1), StkElem(TInitNull, NoLocalId)>>),
    SameEntry(TInitCell, TInitCell, FALSE,
              <<StkElem(TInitCell, 1), StkElem(TInitCell, StackDupId)>>),
    SameEntry(TArr, TVec, FALSE, <<StkElem(TArr, 1), StkElem(TVec, 2)>>),
    SameEntry(TArr, TVArr, FALSE, <<StkElem(TArr, 1)>>) }

SameOptionSets ==
  { [o EXCEPT !.EvalHackArrCompatNotices = n,
              !.EvalHackArrCompatDVCmpNotices = d] :
      o \in { o \in OptionSets : ~o.EffectFreeOnly
                                  /\ o.ConstantProp = o.StrengthReduce },
      n \in BOOLEAN, d \in BOOLEAN }

InitSame ==
  /\ hhbcs \in BlocksOver(SameInstrs)
  /\ fallthrough = NoBlockId
  /\ factoredExits = <<>>
  /\ options \in SameOptionSets
  /\ state \in SameEntryStates
  /\ WellFormedBlock(hhbcs, Len(state.stack), 0, fallthrough)
  /\ implRun = NoImpl
  /\ entry = state
  /\ collect = NoCollected
  /\ iter = 1
  /\ outcome = "Scanning"
  /\ returned = <<>>
  /\ propagated = <<>>
  /\ last = NoLast

SpecSame == InitSame /\ [][Next]_vars

\* --------------------------------------- identity and NaN
\* the latest step was Same or NSame on its own
LastWasSame ==
  /\ last.valid /\ outcome # "BlockEnd" /\ last.consumed = 1
  /\ hhbcs[last.first].op \in {"Same", "NSame"}
LastNSame == hhbcs[last.first].op = "NSame"
\* its operands are known to be one value
LastKnownSame ==
  knownSameValue(PreEnv, topStkEquiv(PreEnv, 0), topStkEquiv(PreEnv, 1))
\* a type that admits a floating value and is no literal other than NaN
couldBeNaN(t) == couldBe(t, TDbl) /\ ~(HasTv(t) /\ ~std_isnan(tv(t)))
\* the result of comparing literals, else of the lattice's comparator
literalOrLattice(NSame, t1, t2) ==
  IF HasTv(t1) /\ HasTv(t2)
  THEN (IF cellSame(tv(t2), tv(t1)) # NSame THEN TTrue ELSE TFalse)
  ELSE (IF NSame THEN typeNSame(t1, t2) ELSE typeSame(t1, t2))
\* the type the comparison pushed
LastPushed == state.stack[Len(state.stack)].type

\* the statement as written: when either operand could be a NaN-bearing
\* float, operands known to be one value are compared as literals or by
\* the lattice
C15_NaNAsStated ==
  LastWasSame /\ LastKnownSame
    /\ (couldBeNaN(topT(PreEnv, 0)) \/ couldBeNaN(topT(PreEnv, 1))) =>
      LastPushed = literalOrLattice(LastNSame, topT(PreEnv, 0),
                                    topT(PreEnv, 1))

\* C15: Same/NSame on operands known to be one value (same local,
\* equivalent locals, a stack duplicate) answers "equal" from that
\* knowledge exactly when at least one operand cannot be a NaN-bearing
\* float; when both could be, the result is that of comparing literals
\* or of the lattice's comparator.
C15_NaNTieBreak ==
  LastWasSame /\ LastKnownSame =>
    IF couldBeNaN(topT(PreEnv, 0)) /\ couldBeNaN(topT(PreEnv, 1))
    THEN LastPushed = literalOrLattice(LastNSame, topT(PreEnv, 0),
                                       topT(PreEnv, 1))
    ELSE LastPushed = (IF LastNSame THEN TFalse ELSE TTrue)

\* two reads of one local that may hold NaN: the comparison is undecided
C15_Witness ==
  /\ LastWasSame /\ LastKnownSame
  /\ couldBeNaN(topT(PreEnv, 0)) /\ couldBeNaN(topT(PreEnv, 1))
  /\ LastPushed = TBool

\* a duplicate whose source was narrowed to an integer: decided as equal
\* although the duplicate's own type admits NaN
C15_WitnessOneSided ==
  /\ LastWasSame /\ LastKnownSame
  /\ couldBeNaN(topT(PreEnv, 0)) /\ ~couldBeNaN(topT(PreEnv, 1))
  /\ LastPushed = TTrue

\* ------------------------------- comparisons that may raise a notice
\* the latest step was an identity comparison on its own: Same, NSame,
\* or an Eq/Neq that resolveSame decided as identical
LastWasIdentity ==
  /\ last.valid /\ outcome # "BlockEnd" /\ last.consumed = 1
  /\ \/ hhbcs[last.first].op \in {"Same", "NSame"}
     \/ /\ hhbcs[last.first].op \in {"Eq", "Neq"}
        /\ resolveSame(PreEnv, FALSE).first = TTrue
LastMightWarn == mightWarn(topT(PreEnv, 0), topT(PreEnv, 1))

\* C16: an identity comparison that might raise a container-compatibility
\* notice reports flags that are neither const-prop-eligible nor no-throw,
\* from the handler and after the driver's finishing of the step, also
\* when the boolean it pushed is a literal.
C16_WarningNotPure ==
  LastWasIdentity /\ LastMightWarn =>
    /\ ~last.handlerFlags.canConstProp /\ last.handlerFlags.wasPEI
    /\ ~last.flags.canConstProp /\ last.flags.wasPEI

\* Same on a PHP array and a Hack array with notices on: the pushed
\* boolean is a literal and constant propagation is enabled
C16_Witness ==
  /\ LastWasIdentity /\ LastMightWarn
  /\ hhbcs[last.first].op \in {"Same", "NSame"}
  /\ options.ConstantProp
  /\ HasTv(LastPushed)

\* Eq decided through identity on operands that might warn
C16_WitnessEq ==
  /\ LastWasIdentity /\ LastMightWarn
  /\ hhbcs[last.first].op \in {"Eq", "Neq"}

\* ------------------------------------------------- direct calls
\* blocks of pushes of pending calls and of calls of every form; the
\* direct calls name f_int, which the record on top may or may not hold
DirectInstrs ==
  { Ins("Int", 1, 0), Ins("Int", 0, 0), Ins0("PopC"), Ins0("NullUninit"),
    Ins("FCall", 0, 0), Ins("FCall", 1, 0),
    InsS("FCallD", 0, 0, s_empty, "f_int"),
    InsS("FCallDM", 0, 2, s_empty, "f_int"),
    InsS("FCallAwait", 0, 0, s_empty, "f_int"),
    Ins("FCallM", 0, 2), Ins("FCallArray", 0, 0), Ins("FCallUnpackM", 1, 2),
    Ins0("IsUninit"), Ins("JmpNZ", 2, 0), Ins("FPushFunc", 0, 0),
    InsS("FPushClsMethodD", 0, 0, "C", "f_int") }
  \cup { InsS("FPushFuncD", 0, 0, s_empty, f) :
           f \in {"f_fold", "f_int", "f_never", "f_pair"} }

InitDirect == InitOver(DirectInstrs, CallOptionSets)

SpecDirect == InitDirect /\ [][Next]_vars

CallOps ==
  {"FCall", "FCallD", "FCallM", "FCallDM", "FCallAwait", "FCallArray",
   "FCallUnpack", "FCallUnpackM"}
DirectOps == {"FCallD", "FCallDM", "FCallAwait"}
PushOps == {"FPushFuncD", "FPushFunc", "FPushClsMethodD"}

\* the latest step analysed one instruction, a call
LastWasCall ==
  /\ last.valid /\ outcome # "BlockEnd" /\ last.consumed = 1
  /\ hhbcs[last.first].op \in CallOps
\* the record the call found on top of the pending-call stack
LastAr == last.before.fpiStack[Len(last.before.fpiStack)]

\* C17: a push of a pending call adds one record on top of the
\* pending-call stack, a call of any form removes exactly the record on
\* top and leaves the records below it as they were, and no other
\* instruction touches the stack.
C17_RecordConsumedOnce ==
  last.valid /\ outcome # "BlockEnd" /\ last.consumed = 1 =>
    LET pre == last.before.fpiStack
        post == state.fpiStack
        op == hhbcs[last.first].op
    IN IF op \in CallOps
       THEN pre # <<>> /\ post = SubSeq(pre, 1, Len(pre) - 1)
       ELSE IF op \in PushOps
       THEN Len(post) = Len(pre) + 1 /\ SubSeq(post, 1, Len(pre)) = pre
       ELSE post = pre

\* two calls are pending and a call with a known callee consumed the
\* later one
C17_Witness ==
  /\ LastWasCall
  /\ Len(last.before.fpiStack) = 2
  /\ LastAr.func # s_empty
  /\ state.fpiStack = <<last.before.fpiStack[1]>>

\* the same after a failed fold
C17_WitnessFoldFail ==
  /\ LastWasCall
  /\ Len(last.before.fpiStack) = 2
  /\ LastAr.foldable
  /\ LastAr.func \in collect.unfoldable
  /\ state.fpiStack = <<last.before.fpiStack[1]>>

\* a call on a record that resolved no function takes the generic path
C17_WitnessGeneric ==
  /\ LastWasCall
  /\ LastAr.func = s_empty
  /\ state.fpiStack = SubSeq(last.before.fpiStack, 1,
                             Len(last.before.fpiStack) - 1)

\* ------------------------------------------------ re-issued direct calls
LastWasDirect == LastWasCall /\ hhbcs[last.first].op \in DirectOps
\* the record on top resolved a function or a class the call does not name
LastNamesDiffer ==
  \/ LastAr.func # s_empty /\ LastAr.func # hhbcs[last.first].s2
  \/ LastAr.cls # s_empty /\ LastAr.cls # hhbcs[last.first].s1
\* the same call naming the record's class and function
LastReissued ==
  [hhbcs[last.first] EXCEPT !.s1 = LastAr.cls, !.s2 = LastAr.func]
\* the replacement the step recorded
LastReduced == last.flags.strengthReduced

\* the statement as written: with strength reduction on, every direct
\* call whose names differ from the record's is replaced
C18_ReissueAsStated ==
  LastWasDirect /\ LastNamesDiffer /\ options.StrengthReduce =>
    last.flags.hasReduced

\* C18: a direct call (FCallD, FCallDM, or FCallAwait on a record not
\* flagged foldable) whose names differ from the record's is analysed as
\* the same call naming the record's class and function, which matches
\* the record; with strength reduction on it is replaced, and no direct
\* call other than the matching one is in the replacement.  FCallAwait on
\* a foldable record fails the fold first and is not replaced.
C18_Reissue ==
  LastWasDirect /\ LastNamesDiffer =>
    IF hhbcs[last.first].op = "FCallAwait" /\ LastAr.foldable
    THEN /\ ~last.flags.hasReduced
         /\ LastAr.func \in collect.unfoldable
         /\ state.stack[Len(state.stack)].type = TBottom
    ELSE /\ LastReissued.s2 = LastAr.func
         /\ LastAr.cls # s_empty => LastReissued.s1 = LastAr.cls
         /\ state = dispatch(PreEnv, LastReissued).state
         /\ options.StrengthReduce =>
              /\ last.flags.hasReduced
              /\ LastReduced # <<>>
              /\ \A k \in 1..Len(LastReduced) :
                   LastReduced[k].op \in DirectOps =>
                     LastReduced[k] = LastReissued

\* a call naming no class on a record that resolved the class C is
\* replaced by the call naming C
C18_Witness ==
  /\ LastWasDirect /\ LastNamesDiffer
  /\ LastAr.cls = "C" /\ hhbcs[last.first].s1 = s_empty
  /\ LastReduced = <<LastReissued>>

\* a call naming another function than the record's
C18_WitnessFunc ==
  /\ LastWasDirect /\ LastNamesDiffer
  /\ LastAr.func # hhbcs[last.first].s2
  /\ hhbcs[last.first].op = "FCallAwait"
  /\ LastReduced = <<LastReissued>>

\* FCallAwait naming another function than its foldable record's
C18_WitnessFoldable ==
  /\ LastWasDirect /\ LastNamesDiffer
  /\ hhbcs[last.first].op = "FCallAwait" /\ LastAr.foldable
  /\ options.StrengthReduce

\* ------------------------------------------- callees that never return
\* the call goes through pushCallReturnType: the record resolved a
\* function and is not flagged foldable
LastThroughReturnType ==
  /\ LastWasCall
  /\ hhbcs[last.first].op # "FCallAwait"
  /\ LastAr.func # s_empty /\ ~LastAr.foldable
\* the return type the index answers for the resolved callee
LastReturnType ==
  IF LastAr.fallbackFunc = s_empty THEN lookup_return_type(LastAr.func)
  ELSE union_of(lookup_return_type(LastAr.func),
                lookup_return_type(LastAr.fallbackFunc))
\* the slots the call popped and pushed by its declared arity
LastDeclaredDepth ==
  Len(last.before.stack) - numPop(hhbcs[last.first])
    + numPush(hhbcs[last.first])

\* the statement as written: the state is marked unreachable and no value
\* is pushed
C19_NeverReturnsAsStated ==
  LastThroughReturnType /\ LastReturnType = TBottom =>
    /\ state.unreachable
    /\ Len(state.stack) =
         Len(last.before.stack) - numPop(hhbcs[last.first])

\* C19: a call whose resolved callee has the uninhabited return type
\* marks the post-call state unreachable, which ends the analysis of the
\* block; it still pushes its declared results: the uninhabited type for
\* a single result, initialized cells for a multi-value call.  A call
\* whose callee may return is not marked.
C19_NeverReturns ==
  LastThroughReturnType =>
    IF LastReturnType = TBottom
    THEN /\ state.unreachable /\ outcome = "Unreachable"
         /\ Len(state.stack) = LastDeclaredDepth
         /\ \A k \in 1..numPush(hhbcs[last.first]) :
              state.stack[Len(state.stack) - k + 1].type =
                IF numPush(hhbcs[last.first]) = 1 THEN TBottom
                ELSE TInitCell
    ELSE ~state.unreachable

\* a single-result call of a function that never returns
C19_Witness ==
  /\ LastThroughReturnType /\ LastReturnType = TBottom
  /\ outcome = "Unreachable"
  /\ state.stack[Len(state.stack)].type = TBottom

\* a multi-value call of a function that never returns
C19_WitnessMulti ==
  /\ LastThroughReturnType /\ LastReturnType = TBottom
  /\ numPush(hhbcs[last.first]) = 2
  /\ outcome = "Unreachable"

\* --------------------------------------------------- foldable calls
\* the call found a record flagged foldable, with folding enabled
LastFoldable ==
  LastWasCall /\ LastAr.foldable /\ options.ConstantFoldBuiltins
LastNumArgs ==
  IF hhbcs[last.first].op = "FCallArray" THEN 1 ELSE hhbcs[last.first].a1
\* the types of the call's arguments, first argument first
LastArgs ==
  [i \in 1..LastNumArgs |-> topT(PreEnv, LastNumArgs - i)]
\* the replacement of a folded call: pops of the arguments, the literal
LastFoldRepl ==
  [i \in 1..LastNumArgs |-> Ins0("PopC")]
    \o <<gen_constant(tv(state.stack[Len(state.stack)].type)),
         Ins0("RGetCNop")>>
\* the call was folded: the literal is on the stack in place of the
\* arguments, the replacement is recorded, and analysing the replacement
\* again asks for the same replacement
LastFolded ==
  /\ HasTv(state.stack[Len(state.stack)].type)
  /\ state.stack[Len(state.stack)].type =
       lookup_foldable_return_type(LastAr.func, LastArgs)
  /\ Len(state.stack) = Len(last.before.stack) - LastNumArgs + 1
  /\ options.StrengthReduce =>
       /\ LastReduced = LastFoldRepl
       /\ reduce(fpiPop(PreEnv), LastFoldRepl).flags.strengthReduced
            = LastFoldRepl
\* the fold failed: the function is marked, so that a later push of it
\* is not flagged foldable
LastFoldCleared ==
  /\ LastAr.func \in collect.unfoldable
  /\ ~fpiFoldable([PreEnv EXCEPT !.unfoldable = collect.unfoldable], LastAr)
  /\ state.stack[Len(state.stack)].type = TBottom
  /\ \A k \in 1..Len(LastReduced) : LastReduced[k].op \in DirectOps

\* C20: a call on a record flagged foldable, with folding enabled, either
\* is folded (concrete evaluation gave a literal; the call is replaced by
\* pops of its arguments and a push of the literal, and analysing the
\* replacement asks for no other) or clears the foldable flag of its
\* function so that no later push of it is foldable; never both, never
\* neither.  The push of a foldable record is itself replaced by Nop.
C20_FoldOrClear ==
  /\ LastFoldable => (LastFolded /\ ~LastFoldCleared)
                       \/ (LastFoldCleared /\ ~LastFolded)
  /\ LastFoldable /\ LastFolded =>
       hhbcs[last.first].op \in {"FCall", "FCallD"}
  /\ (/\ last.valid /\ outcome # "BlockEnd" /\ last.consumed = 1
      /\ hhbcs[last.first].op = "FPushFuncD"
      /\ state.fpiStack[Len(state.fpiStack)].foldable
      /\ options.StrengthReduce) => LastReduced = <<Ins0("Nop")>>

\* a call with a literal argument folded, strength reduction on
C20_Witness ==
  /\ LastFoldable /\ LastFolded
  /\ LastNumArgs = 1
  /\ options.StrengthReduce

\* a call whose argument is no literal: the flag is cleared
C20_WitnessCleared ==
  /\ LastFoldable /\ LastFoldCleared
  /\ hhbcs[last.first].op = "FCall"
  /\ LastNumArgs = 1

\* ------------------------------------------- casts and sums of literals
\* the latest step analysed one instruction on its own
LastSingle == last.valid /\ outcome # "BlockEnd" /\ last.consumed = 1
\* ... an integer cast of a value known to be an integer
LastWasCastOfInt ==
  /\ LastSingle /\ hhbcs[last.first].op = "CastInt"
  /\ subtypeOf(topT(PreEnv, 0), TInt)

\* the statement as written: the flags are no-throw, effect-free and
\* const-prop-eligible
C22_CastIntNop ==
  LastWasCastOfInt =>
    /\ state = last.before
    /\ options.StrengthReduce => LastReduced = <<Ins0("Nop")>>
    /\ ~last.flags.wasPEI /\ last.flags.effectFree
    /\ last.flags.canConstProp

\* C22: an integer cast of a value whose type is a subtype of integer is
\* reduced to a no-op and leaves the state unchanged; the flags it reports
\* are those of the no-op it was reduced to: no-throw and effect-free, and
\* not const-prop-eligible.
C22_CastIntFlags ==
  LastWasCastOfInt =>
    /\ state = last.before
    /\ options.StrengthReduce => LastReduced = <<Ins0("Nop")>>
    /\ ~last.flags.wasPEI /\ last.flags.effectFree
    /\ ~last.flags.canConstProp

C22_Witness ==
  /\ LastWasCastOfInt /\ options.StrengthReduce
  /\ HasTv(topT(PreEnv, 0))

\* the latest step added two integer literals
LastWasAddOfLiterals ==
  /\ LastSingle /\ hhbcs[last.first].op = "Add"
  /\ HasTv(topT(PreEnv, 0)) /\ tv(topT(PreEnv, 0)).k = "Int"
  /\ HasTv(topT(PreEnv, 1)) /\ tv(topT(PreEnv, 1)).k = "Int"
\* the concrete sum at the width of the model's integers
LastSum ==
  {Val("Int", (tv(topT(PreEnv, 1)).v + tv(topT(PreEnv, 0)).v) % IntMod)}
\* both operands were popped and the sum pushed in their place
LastSumPushed ==
  /\ Len(state.stack) = Len(last.before.stack) - 1
  /\ SubSeq(state.stack, 1, Len(state.stack) - 1)
       = SubSeq(last.before.stack, 1, Len(last.before.stack) - 2)
  /\ LastPushed = LastSum

C23_WitnessMayThrow ==
  /\ LastWasAddOfLiterals
  /\ ~options.ConstantProp
  /\ last.flags.wasPEI

\* ------------------------------------------- blocks of local writes
MoveInstrs ==
  { Ins("CGetL", 1, 0), Ins("CGetL", 2, 0), Ins("SetL", 1, 0),
    Ins("SetL", 2, 0), Ins("PopL", 1, 0), Ins("PopL", 2, 0),
    Ins("Int", 1, 0), Ins0("PopC"), Ins0("IsUninit"), Ins("JmpNZ", 2, 0) }

\* the states a block of local writes is entered with: two locals of any
\* initialized type; two equivalent integers, one read onto the stack; a
\* local that may be a reference under a read of the other local; a local
\* that may be unset
MoveEntryStates ==
  { SameEntry(TInitCell, TInitCell, FALSE, <<>>),
    SameEntry(TInt, TInt, TRUE, <<StkElem(TInt, 1)>>),
    SameEntry(TGen, TInitCell, FALSE, <<StkElem(TInitCell, 2)>>),
    SameEntry(TCell, ival(1), FALSE, <<>>) }

InitMove ==
  /\ hhbcs \in BlocksOver(MoveInstrs)
  /\ fallthrough = NoBlockId
  /\ factoredExits = <<>>
  /\ options \in { o \in OptionSets : ~o.EffectFreeOnly }
  /\ state \in MoveEntryStates
  /\ WellFormedBlock(hhbcs, Len(state.stack), 0, fallthrough)
  /\ implRun = NoImpl
  /\ entry = state
  /\ collect = NoCollected
  /\ iter = 1
  /\ outcome = "Scanning"
  /\ returned = <<>>
  /\ propagated = <<>>
  /\ last = NoLast

SpecMove == InitMove /\ [][Next]_vars

\* the latest step was SetL or PopL on its own
LastWasMove ==
  /\ LastSingle /\ hhbcs[last.first].op \in {"SetL", "PopL"}
LastDest == hhbcs[last.first].a1
LastTop == last.before.stack[Len(last.before.stack)]
\* the local the popped value is known to equal, if any
LastTopLocal ==
  IF LastTop.equiv \in Locals THEN LastTop.equiv ELSE NoLocalId
\* the value on top is provably what the destination already holds
LastMoveIsNoop ==
  /\ LastTopLocal # NoLocalId
  /\ \/ LastTopLocal = LastDest
     \/ LastTopLocal \in RingFrom(last.before.equivLocals, LastDest, {})
  /\ ~couldBe(last.before.locals[LastDest], TRef)
  /\ last.before.locals[LastDest] = LastTop.type
LastPopped ==
  [last.before EXCEPT !.stack = SubSeq(@, 1, Len(@) - 1)]

\* C24: a SetL or PopL whose popped value is tagged with the destination
\* local or a local equivalent to it, whose destination cannot be a
\* reference, and whose destination's raw type equals the value's type
\* mutates nothing: PopL is a plain pop (reduced to PopC) and SetL leaves
\* the state as it was (reduced to Nop).  Otherwise the destination is
\* assigned the popped type, every other local keeps its type, and the
\* destination is equivalent to the local the value came from.
C24_MoveToLocal ==
  LastWasMove =>
    IF LastMoveIsNoop
    THEN /\ hhbcs[last.first].op = "PopL" =>
              /\ state = LastPopped
              /\ options.StrengthReduce => LastReduced = <<Ins0("PopC")>>
         /\ hhbcs[last.first].op = "SetL" =>
              /\ state = last.before
              /\ options.StrengthReduce => LastReduced = <<Ins0("Nop")>>
    ELSE /\ state.locals[LastDest] = LastTop.type
         /\ \A l \in Locals \ {LastDest} :
              state.locals[l] = last.before.locals[l]
         /\ LastTopLocal \notin {NoLocalId, LastDest} =>
              LastTopLocal \in RingFrom(state.equivLocals, LastDest, {})
         /\ ~last.flags.hasReduced
         /\ Len(state.stack) = Len(last.before.stack)
              - (IF hhbcs[last.first].op = "PopL" THEN 1 ELSE 0)
         /\ hhbcs[last.first].op = "SetL" =>
              state.stack[Len(state.stack)].type = LastTop.type

\* a write of a local's own value back to an equivalent local
C24_Witness ==
  /\ LastWasMove /\ LastMoveIsNoop
  /\ LastTopLocal # LastDest
  /\ options.StrengthReduce

\* an assignment that makes two unrelated locals equivalent
C24_WitnessAssign ==
  /\ LastWasMove /\ ~LastMoveIsNoop
  /\ LastTopLocal \notin {NoLocalId, LastDest}
  /\ LastTopLocal \notin RingFrom(last.before.equivLocals, LastDest, {})
  /\ state.locals[LastDest] # last.before.locals[LastDest]

\* an assignment to a destination that may be a reference
C24_WitnessRef ==
  /\ LastWasMove /\ ~LastMoveIsNoop
  /\ couldBe(last.before.locals[LastDest], TRef)
  /\ LastTopLocal \notin {NoLocalId, LastDest}

\* ------------------------------------- blocks the verifier would reject
\* "Unmatched" stands for an opcode value outside dispatch's switch
MalformedInstrs ==
  { Ins("Int", 1, 0), Ins0("PopC"), Ins0("RetC"), Ins0("NativeImpl"),
    Ins("Jmp", 2, 0), Ins("JmpNS", 2, 0), Ins0("Unmatched"),
    Ins0("IsUninit"), Ins("JmpNZ", 2, 0) }

\* no stack underflow, but control-flow-ending instructions anywhere and
\* under any fallthrough
StackFormedBlock(bcs, d0) ==
  \A i \in 1..Len(bcs) :
    /\ numPop(bcs[i]) <= declDepth(bcs, d0, i - 1)
    /\ bcs[i].op = "IsUninit" => declDepth(bcs, d0, i - 1) >= 1
    /\ bcs[i].op = "RetC" => declDepth(bcs, d0, i - 1) = 1

InitMalformed ==
  /\ hhbcs \in BlocksOver(MalformedInstrs)
  /\ \E c \in CfgShapes : fallthrough = c.ft /\ factoredExits = c.fx
  /\ options \in OptionSets
  /\ state \in EntryStates
  /\ StackFormedBlock(hhbcs, Len(state.stack))
  /\ implRun = NoImpl
  /\ entry = state
  /\ collect \in { [NoCollected EXCEPT !.effectFree = e] :
                     e \in { e \in BOOLEAN : options.EffectFreeOnly => e } }
  /\ iter = 1
  /\ outcome = "Scanning"
  /\ returned = <<>>
  /\ propagated = <<>>
  /\ last = NoLast

SpecMalformed == InitMalformed /\ [][Next]_vars

\* the latest step dispatched an instruction no block may hold, or one
\* dispatch has no case for
LastWasUndispatchable ==
  /\ LastSingle
  /\ hhbcs[last.first].op \in {"Jmp", "JmpNS", "Unmatched"}
\* the latest step was a return that is not the end of the block, or the
\* end of a block with a fallthrough successor
LastWasMisplacedReturn ==
  /\ LastSingle
  /\ hhbcs[last.first].op \in {"RetC", "NativeImpl"}
  /\ last.first < Len(hhbcs) \/ fallthrough # NoBlockId
\* the analysis stopped on a failed assertion
LastAborted == outcome = "Aborted" /\ returned = <<>>
\* what the latest step handed to propagate
LastPropagated ==
  SubSeq(propagated, last.logBefore + 1, Len(propagated))

\* the statement as written: every misplaced return ends in the fatal
\* assertion
C25_AbortsAsStated ==
  /\ LastWasUndispatchable => LastAborted /\ LastPropagated = <<>>
  /\ LastWasMisplacedReturn => LastAborted

\* C25: a Jmp or JmpNS reaching its handler and an opcode dispatch has no
\* case for end the analysis in a fatal assertion with nothing propagated;
\* a return-class instruction that is not last in its block, or that ends
\* a block with a fallthrough successor, ends in run's fatal assertion with
\* no returned type reported, unless run has already bailed because the
\* return has effects under effect-free-only collection.
C25_Aborts ==
  /\ LastWasUndispatchable => LastAborted /\ LastPropagated = <<>>
  /\ LastWasMisplacedReturn =>
       IF last.bailed THEN outcome = "Bailed" /\ returned = <<>>
       ELSE LastAborted
  /\ LastWasMisplacedReturn /\ last.bailed =>
       /\ hhbcs[last.first].op = "NativeImpl"
       /\ options.EffectFreeOnly /\ last.wasEffectFree

\* a Jmp in a block with factored exits: aborted, nothing propagated
C25_Witness ==
  /\ LastWasUndispatchable /\ hhbcs[last.first].op = "Jmp"
  /\ factoredExits # <<>> /\ LastAborted

C25_WitnessUnmatched ==
  /\ LastWasUndispatchable /\ hhbcs[last.first].op = "Unmatched"
  /\ LastAborted

\* a RetC followed by another instruction
C25_WitnessReturn ==
  /\ LastWasMisplacedReturn /\ hhbcs[last.first].op = "RetC"
  /\ last.first < Len(hhbcs) /\ LastAborted

\* a RetC that ends a block with a fallthrough successor
C25_WitnessFallthrough ==
  /\ LastWasMisplacedReturn /\ last.first = Len(hhbcs)
  /\ fallthrough # NoBlockId /\ LastAborted

\* a NativeImpl in mid-block under effect-free-only collection: run bails
\* before its assertion
C25_WitnessBailed ==
  /\ LastWasMisplacedReturn /\ last.bailed /\ outcome = "Bailed"

\* ----------------------------------- merging equivalence classes
\* the latest step was Same or NSame fused with a jump, analysed as one
LastWasFusedSame ==
  /\ last.valid /\ outcome # "BlockEnd" /\ last.consumed >= 2
  /\ LastHead.op \in {"Same", "NSame"}
  /\ ~sameJmpBails(PreEnv, LastHead.op = "NSame")
LastLoc0 == topStkEquiv(PreEnv, 0)
LastLoc1 == topStkEquiv(PreEnv, 1)
\* ... and its handle_same records the operands as one value
LastMerges ==
  /\ LastWasFusedSame
  /\ canAssertEquiv(LastLoc0, LastLoc1, topT(PreEnv, 0), topT(PreEnv, 1))

\* C26: whenever handle_same merges equivalence classes, the two locals
\* are distinct and not already equivalent, so the assertion ahead of the
\* merge holds and the analysis is not aborted, two reads of one local
\* whose type may be a NaN float included.
C26_MergeAssertion ==
  LastMerges =>
    /\ LastLoc0 # LastLoc1
    /\ LastLoc1 \notin RingFrom(last.before.equivLocals, LastLoc0, {})
    /\ outcome # "Aborted"

\* blocks of comparisons of integer locals in rings of one, two and three
MergeInstrs ==
  { Ins0("Same"), Ins0("NSame"), Ins("JmpZ", 2, 0), Ins("JmpNZ", 2, 0),
    Ins0("Not"), Ins0("PopC"), Ins("CGetL", 1, 0), Ins("CGetL", 3, 0) }

MergeEntry(eq, stack) ==
  [stack |-> stack, locals |-> [l \in Locals |-> TInt],
   equivLocals |-> eq, fpiStack |-> <<>>, iters |-> <<>>,
   unreachable |-> FALSE]

MergeEntryStates ==
  { MergeEntry(eq, stk) :
      eq \in { <<NoLocalId, NoLocalId, NoLocalId, NoLocalId>>,
               <<2, 1, NoLocalId, NoLocalId>>,
               <<2, 1, 4, 3>>,
               <<2, 4, NoLocalId, 1>>,
               <<NoLocalId, 4, 2, 3>>,
               <<NoLocalId, 4, NoLocalId, 2>> },
      stk \in { <<StkElem(TInt, 1), StkElem(TInt, 3)>>,
                <<StkElem(TInt, 3), StkElem(TInt, 1)>>,
                <<StkElem(TInt, 1)>> } }

InitMerge ==
  /\ hhbcs \in BlocksOver(MergeInstrs)
  /\ fallthrough = NoBlockId
  /\ factoredExits = <<>>
  /\ options \in { o \in SameOptionSets : ~o.EvalHackArrCompatNotices
                                           /\ ~o.EvalHackArrCompatDVCmpNotices }
  /\ state \in MergeEntryStates
  /\ WellFormedBlock(hhbcs, Len(state.stack), 0, fallthrough)
  /\ implRun = NoImpl
  /\ entry = state
  /\ collect = NoCollected
  /\ iter = 1
  /\ outcome = "Scanning"
  /\ returned = <<>>
  /\ propagated = <<>>
  /\ last = NoLast

SpecMerge == InitMerge /\ [][Next]_vars

\* the jump is taken when the operands are the same
LastSameIsJmpTarget == (LastHead.op = "Same") = (LastJmp.op = "JmpNZ")
\* the state handle_same worked on: the one propagated to the jump target,
\* or the one the block goes on with
LastMergedState ==
  IF LastSameIsJmpTarget THEN propagated[last.logBefore + 1].state
  ELSE state
LastClass0 == RingFrom(last.before.equivLocals, LastLoc0, {})
LastClass1 == RingFrom(last.before.equivLocals, LastLoc1, {})
\* the merge ran with its assertion satisfied
LastMerged ==
  /\ LastMerges /\ outcome # "Aborted"
  /\ LastSameIsJmpTarget => Len(propagated) > last.logBefore

\* C27: after handle_same's merge loop (which ends, every ring being
\* finite) every local that was equivalent to either operand's local is
\* equivalent to both; the relation stays symmetric and transitive (each
\* member's class is the union of the two classes); and no local outside
\* the two classes joins or changes.
C27_MergeLoop ==
  LastMerged =>
    LET eq == LastMergedState.equivLocals
        both == LastClass0 \cup LastClass1
    IN /\ \A x \in both : RingFrom(eq, x, {}) = both
       /\ \A x \in Locals \ both : eq[x] = last.before.equivLocals[x]

\* two rings of two become one ring of four
C27_Witness ==
  /\ LastMerged
  /\ Cardinality(LastClass0) = 2 /\ Cardinality(LastClass1) = 2
  /\ RingFrom(LastMergedState.equivLocals, 1, {}) = Locals

\* a ring of three joins a single local
C27_WitnessThree ==
  /\ LastMerged
  /\ Cardinality(LastClass0) = 3 /\ Cardinality(LastClass1) = 1

\* a ring is left alone by the merge of two other locals
C27_WitnessOutside ==
  /\ LastMerged
  /\ \E x \in Locals \ (LastClass0 \cup LastClass1) :
       last.before.equivLocals[x] # NoLocalId

\* ------------------------------------------------ blocks of iterations
\* iterator 1 over the value on the stack, its element in local 1 and its
\* key in local 2; the loop's other edge is block 2
IterInstrs ==
  { InsIter("IterInit", 1, 2, 1, 0), InsIter("IterInitK", 1, 2, 1, 2),
    InsIter("IterNext", 1, 2, 1, 0), InsIter("IterNextK", 1, 2, 1, 2),
    Ins("IterFree", 1, 0), Ins0("PopC"), Ins("CGetL", 1, 0),
    Ins0("IsUninit"), Ins("JmpNZ", 2, 0) }

IterEntry(src, it) ==
  [stack |-> <<StkElem(src, NoLocalId)>>,
   locals |-> [l \in Locals |-> IF l = 1 THEN TCell ELSE TStr],
   equivLocals |-> [l \in Locals |-> NoLocalId],
   fpiStack |-> <<>>, iters |-> <<it>>, unreachable |-> FALSE]

\* the sources a block iterates over, by what is known of their size
IterSources ==
  { TVecE, TVec1, TVecE \cup TVec1, TVec1 \cup TVec2, TVec, TInitCell,
    TInt }

\* the states a block of iterations is entered with: a source on the stack
\* under an iterator nothing is known of, or an iterator an earlier block
\* initialised
IterEntryStates ==
  { IterEntry(src, UnknownIter) : src \in IterSources }
  \cup { IterEntry(src, TrackedIter(iter_types(t))) :
           src \in {TVecE, TVec},
           t \in {TVec1, TVecE \cup TVec1, TVec1 \cup TVec2, TVec} }

InitIter ==
  /\ hhbcs \in BlocksOver(IterInstrs)
  /\ \E c \in CfgShapes : fallthrough = c.ft /\ factoredExits = c.fx
  /\ options \in { o \in OptionSets : o.ConstantProp = o.StrengthReduce }
  /\ state \in IterEntryStates
  /\ WellFormedBlock(hhbcs, Len(state.stack), 0, fallthrough)
  /\ implRun = NoImpl
  /\ entry = state
  /\ collect = NoCollected
  /\ iter = 1
  /\ outcome = "Scanning"
  /\ returned = <<>>
  /\ propagated = <<>>
  /\ last = NoLast

SpecIter == InitIter /\ [][Next]_vars

\* the latest step initialised an iterator over a source known to be empty
LastWasInitOverEmpty ==
  /\ LastSingle /\ LastHead.op \in {"IterInit", "IterInitK"}
  /\ LastTop.type # TBottom /\ subtypeOf(LastTop.type, TVecE)
\* the state before the step without the source and with the iterator free
LastFreedState ==
  [LastPopped EXCEPT !.iters[LastHead.a1] = UnknownIter]

\* C21: an IterInit or IterInitK over a provably empty source hands the
\* state, with the source popped, the iterator freed and no local
\* assigned, to the empty-iteration successor and to nothing else; run
\* stops there, so the loop body is neither propagated to nor continued
\* into, and no tracked iterator exists.
C21_EmptySource ==
  LastWasInitOverEmpty =>
    /\ LastPropagated = <<[origin |-> "edge", target |-> LastHead.a2,
                           state |-> LastFreedState]>>
    /\ state = LastFreedState
    /\ ~state.iters[LastHead.a1].tracked
    /\ last.flags.jmpDest = LastHead.a2
    /\ outcome \in {"BranchTaken", "Bailed"}

\* over an entry state whose iterator was tracked by an earlier block
C21_Witness ==
  /\ LastWasInitOverEmpty
  /\ last.before.iters[LastHead.a1].tracked
  /\ outcome = "BranchTaken"
  /\ fallthrough # NoBlockId

C21_WitnessKey ==
  /\ LastWasInitOverEmpty /\ LastHead.op = "IterInitK"

\* the latest step was IterNext or IterNextK and its assertion held
LastWasIterNext ==
  /\ LastSingle /\ LastHead.op \in {"IterNext", "IterNextK"}
  /\ outcome # "Aborted"
LastIter == last.before.iters[LastHead.a1]
\* the calls of propagate the handler made
LastEdges ==
  SelectSeq(LastPropagated, LAMBDA e : e.origin = "edge")
\* the iterator is known to have no further element
LastNoNext ==
  LastIter.tracked /\ LastIter.types.count \in {"Single", "ZeroOrOne"}
LastElemValue ==
  IF LastIter.tracked THEN LastIter.types.value ELSE TInitCell
LastElemKey ==
  IF LastIter.tracked THEN LastIter.types.key ELSE TInitCell

\* C28: after IterNext or IterNextK the state the block goes on with has
\* the iterator freed and every local's raw type as it was before the
\* instruction; the element types are assigned only in the state
\* propagated to the loop-head target, in which the iterator is as it was;
\* nothing is propagated there when the iterator is known to be exhausted.
C28_IterNext ==
  LastWasIterNext =>
    /\ state.iters[LastHead.a1] = UnknownIter
    /\ state.locals = last.before.locals
    /\ LastEdges = <<>> <=> LastNoNext
    /\ \A k \in 1..Len(LastEdges) :
         /\ Len(LastEdges) = 1
         /\ LastEdges[k].target = LastHead.a2
         /\ LastEdges[k].state.iters = last.before.iters
         /\ LastEdges[k].state.locals[LastHead.a3] = LastElemValue
         /\ LastHead.op = "IterNextK" =>
              LastEdges[k].state.locals[LastHead.a4] = LastElemKey
         /\ \A l \in Locals \ {LastHead.a3, LastHead.a4} :
              LastEdges[k].state.locals[l] = last.before.locals[l]

\* a tracked iterator that may have a next element
C28_Witness ==
  /\ LastWasIterNext /\ LastIter.tracked /\ ~LastNoNext
  /\ LastHead.op = "IterNextK"
  /\ LastEdges # <<>>
  /\ LastEdges[1].state.locals[1] # state.locals[1]

\* an exhausted iterator: nothing goes back to the loop head
C28_WitnessExhausted ==
  /\ LastWasIterNext /\ LastNoNext /\ LastEdges = <<>>

\* an iterator nothing is known of
C28_WitnessUnknown ==
  /\ LastWasIterNext /\ ~LastIter.tracked /\ LastEdges # <<>>

NoEmptyTracked(st) ==
  \A i \in DOMAIN st.iters :
    st.iters[i].tracked => st.iters[i].types.count # "Empty"

\* C29: no state the block goes on with or hands to a successor holds a
\* tracked iterator whose count is Empty, and the assertion of IterNext
\* and IterNextK on such an iterator never fails.
C29_NoEmptyTracked ==
  /\ NoEmptyTracked(state)
  /\ \A k \in 1..Len(propagated) : NoEmptyTracked(propagated[k].state)
  /\ outcome # "Aborted"

\* an IterInitK over an empty source has run: its iterator is not tracked
C29_Witness ==
  /\ LastWasInitOverEmpty /\ LastHead.op = "IterInitK"
  /\ state.iters[LastHead.a1] = UnknownIter

\* an IterNext on the iterator the instruction before it initialised
C29_WitnessNext ==
  /\ LastWasIterNext /\ last.first > 1
  /\ hhbcs[last.first - 1].op \in {"IterInit", "IterInitK"}
  /\ LastIter.tracked

\* --------------------------------- blocks that read and define constants
CnsInstrs ==
  { InsS("Cns", 0, 0, "A", s_empty), InsS("Cns", 0, 0, "K", s_empty),
    InsS("DefCns", 0, 0, "A", s_empty), Ins("Int", 1, 0),
    Ins("CGetL", 1, 0), Ins0("PopC"),
    InsS("FCallD", 1, 0, s_empty, "defined"),
    Ins0("IsUninit"), Ins("JmpNZ", 2, 0) }

\* a pending call of defined()
DefinedAr == ActRec("Func", s_empty, "defined", s_empty, FALSE)

CnsEntry(stack, fpi) ==
  [EntryState(TCell, stack) EXCEPT !.fpiStack = fpi]

\* the states a block of constant accesses is entered with: nothing on the
\* stack; a literal to define a constant with; the name of a constant as
\* the argument of a pending call of defined()
CnsEntryStates ==
  { CnsEntry(<<>>, <<>>),
    CnsEntry(<<StkElem(ival(1), NoLocalId)>>, <<>>),
    CnsEntry(<<StkElem(sval(0), NoLocalId)>>, <<DefinedAr>>),
    CnsEntry(<<StkElem(sval(1), NoLocalId)>>, <<DefinedAr>>),
    CnsEntry(<<StkElem(sval(0), NoLocalId), StkElem(ival(1), NoLocalId)>>,
             <<DefinedAr>>) }

InitCns ==
  /\ hhbcs \in BlocksOver(CnsInstrs)
  /\ fallthrough = NoBlockId
  /\ factoredExits = <<>>
  /\ options \in { [o EXCEPT !.HardConstProp = h] :
                     o \in { o \in OptionSets : ~o.EffectFreeOnly
                               /\ o.ConstantProp = o.StrengthReduce },
                     h \in BOOLEAN }
  /\ state \in CnsEntryStates
  /\ WellFormedBlock(hhbcs, Len(state.stack), Len(state.fpiStack),
                     fallthrough)
  /\ implRun = NoImpl
  /\ entry = state
  /\ collect = NoCollected
  /\ iter = 1
  /\ outcome = "Scanning"
  /\ returned = <<>>
  /\ propagated = <<>>
  /\ last = NoLast

SpecCns == InitCns /\ [][Next]_vars

\* where a cell of the map stands in the progression: absent, read only,
\* a recorded value, dynamic
CnsRank(c) ==
  CASE c = kAbsent -> 0
    [] c = kReadOnlyConstant -> 1
    [] c.k = "DynamicConstant" -> 3
    [] OTHER -> 2

\* the latest step was, with hard constant propagation on, ...
LastHardSingle == LastSingle /\ options.HardConstProp
\* ... a read of the constant n, which the index does not know
LastReadUnknown(n) ==
  /\ LastHardSingle /\ LastHead.op = "Cns" /\ LastHead.s1 = n
  /\ ~lookup_constant_known(n)
\* ... a definition of the constant n
LastDefined(n) ==
  LastHardSingle /\ LastHead.op = "DefCns" /\ LastHead.s1 = n
\* ... a call of defined() on the literal name n, which the index does not
\* know
LastProbed(n) ==
  /\ LastHardSingle /\ LastHead.op = "FCallD" /\ LastHead.a1 = 1
  /\ LastHead.s2 = "defined"
  /\ HasTv(LastTop.type) /\ tv(LastTop.type).k = "Str"
  /\ CnsOfStr(tv(LastTop.type).v) = n
  /\ ~lookup_constant_known(n)

\* C30: with hard constant propagation on, every step moves each name of
\* the constant map along one progression: a read of a constant the index
\* does not know records the read-only placeholder for a name not yet in
\* the map and requests re-analysis; a DefCns of a name that is absent or
\* a placeholder records the value; a DefCns of a name that has a value
\* or is dynamic, and a defined() probe of a name the index does not know,
\* leave it dynamic; nothing else changes the map, so a dynamic name never
\* gets a value again.
C30_Progression ==
  [][\A n \in CnsNames :
       LET c == collect.cnsMap[n]
           d == collect'.cnsMap[n]
       IN /\ CnsRank(d) >= CnsRank(c)
          /\ CnsRank(c) = 2 /\ CnsRank(d) = 2 => d = c
          /\ LastReadUnknown(n)' =>
               /\ d = IF c = kAbsent THEN kReadOnlyConstant ELSE c
               /\ collect'.readsUntrackedConstants
          /\ LastDefined(n)' =>
               IF CnsRank(c) <= 1
               THEN d = defCnsVal(LastTop.type)' /\ CnsRank(d) = 2
               ELSE CnsRank(d) = 3
          /\ LastProbed(n)' => CnsRank(d) = 3
          /\ ~(LastReadUnknown(n) \/ LastDefined(n) \/ LastProbed(n))' =>
               d = c]_vars

\* a constant defined twice in a row: a value, then dynamic
C30_Witness ==
  /\ LastDefined("A") /\ last.first >= 2
  /\ hhbcs[last.first - 1].op = "DefCns"
  /\ CnsRank(collect.cnsMap["A"]) = 3

\* a read, then the definition: the placeholder gave way to the value
C30_WitnessPlaceholder ==
  /\ LastDefined("A") /\ hhbcs[1].op = "Cns" /\ hhbcs[1].s1 = "A"
  /\ collect.readsUntrackedConstants
  /\ collect.cnsMap["A"] = Val("Int", 1)

\* a probe made the constant dynamic
C30_WitnessProbe ==
  /\ LastProbed("A") /\ CnsRank(collect.cnsMap["A"]) = 3

\* a definition after the probe: still dynamic
C30_WitnessStays ==
  /\ LastDefined("A") /\ last.first >= 2
  /\ hhbcs[last.first - 1].op = "FCallD"
  /\ CnsRank(collect.cnsMap["A"]) = 3
====
